---- MODULE Spec2Model ----
(***************************************************************************)
(* A model of the protolink core: the Task status machine                  *)
(* (protolink/core/task.py), the HTTP transport's send loop with retry     *)
(* (protolink/transport/http.py), the discovery Registry with heartbeats   *)
(* and the stale-agent sweep (protolink/discovery/registry.py), task       *)
(* delivery through the in-memory RuntimeTransport together with the       *)
(* agent's request authentication (protolink/transport/runtime_transport.py*)
(* and protolink/agents/base.py), and the streaming of task events from    *)
(* Agent.handle_task_streaming to a subscriber.                            *)
(*                                                                         *)
(* Each component has its own specification (SpecTask, SpecSend,           *)
(* SpecRegistry, SpecDelivery, SpecAuth, SpecStream); the variables of the *)
(* other components stay at their initial values.                          *)
(***************************************************************************)
EXTENDS Integers, Sequences, FiniteSets, TLC

\* ------------------------------------------------------------------ bounds

\* Number of Task objects the Task specification works on.
NumTasks == 1

\* Largest attempt limit (config.reconnect_attempts) the send is checked with.
MaxAttempts == 3

\* The registry's clock runs from 0 to MaxTime.
MaxTime == 3

\* config.heartbeat_timeout in the clock's unit (configurable; the model takes
\* the clock's unit to be the default timeout).
HeartbeatTimeout == 1

\* The largest number of artifacts a task handed to the default streaming
\* handler carries.
MaxArtifacts == 2

\* The largest number of progress events of a progress-reporting handler.
MaxProgress == 3

\* Number of start calls that get through in a behaviour.
MaxStarts == 2

\* Number of on_task_received calls in a behaviour.
MaxBindings == 2

\* The longest timeout a caller configures, in clock ticks.
MaxTimeout == 2

\* Number of subscribe_task calls in a behaviour.
MaxSubscriptions == 2

\* Messages of a stored context.
MaxMessages == 1

\* Executions of _connect_impl and _disconnect_impl in a behaviour.
MaxImpls == 4

\* ------------------------------------------------------------------ program constants

\* The progress steps of the example's streaming handler: range(1, 5).
ExampleSteps == 4

\* ProtocolConfig.request_timeout and HTTPTransport's timeout, by default.
DefaultRequestTimeout == 30

\* TransportConfig.reconnect_attempts, the default attempt limit.
DefaultAttempts == 3

\* The cap on a backoff sleep, in seconds: min(delay, 30).
BackoffCap == 30

\* WebSocketTransportConfig.reconnect_interval, in seconds.
ReconnectInterval == 5

\* The cap on a reconnection delay, in seconds: min(..., 60.0).
ReconnectCap == 60

\* max_retries of WebSocketTransport._reconnect.
ReconnectMaxRetries == 10

\* ------------------------------------------------------------------

None == "None"

\* ================================================================== state

\* Task (protolink/core/task.py)
VARIABLES
    taskStatus,        \* Task.status, per task
    taskStartedAt,     \* Task.started_at is set (TRUE) or None (FALSE)
    taskCompletedAt,   \* Task.completed_at is set (TRUE) or None (FALSE)
    taskResult,        \* Task.result: None or a TaskResult
    taskCall           \* the last helper call: operation, task, status before, outcome

taskVars == <<taskStatus, taskStartedAt, taskCompletedAt, taskResult, taskCall>>

\* HTTPTransport._send_message_impl (protolink/transport/http.py)
VARIABLES
    reconnectAttempts, \* config.reconnect_attempts, the attempt limit
    reconnectDelay,    \* config.reconnect_delay, the base delay in seconds
    raiseForStatus,    \* the session raises ClientResponseError for a status >= 400
    sendPc,            \* "idle", "post", "sleep", "returned" or "raised"
    attempt,           \* the loop variable of `for attempt in range(...)`
    posts,             \* number of session.post calls made
    outcomes,          \* what the backend answered to each post, in order
    lastError,         \* last_error: None or the MessageDeliveryError of an attempt
    sleeps,            \* the delays slept between attempts, in order
    sendResult,        \* the value returned: None or the response body
    sendError          \* the exception raised: None or its description

sendVars == <<reconnectAttempts, reconnectDelay, raiseForStatus, sendPc, attempt,
              posts, outcomes, lastError, sleeps, sendResult, sendError>>

\* Registry (protolink/discovery/registry.py)
VARIABLES
    now,               \* datetime.utcnow(), in clock units
    agents,            \* Registry.agents: agent_id -> RegisteredAgent
    agentOrder,        \* the insertion order of the keys of Registry.agents
    sweepPc,           \* the cleanup task: "sleeping" between sweeps, or "closing"
                       \* while _cleanup_stale_agents awaits ws_connection.close()
    sweepStale,        \* the local list `stale` of the running sweep
    sweepIdx,          \* the position in `stale` of the agent being removed
    wsOpen,            \* per WebSocket connection: its websocket_endpoint runs
    wsAgentId,         \* the local agent_id of each websocket_endpoint
    wsServerClosed,    \* the registry called close() on the connection
    discovered,        \* the last result of _find_agents: agent ids, in order
    regCall            \* the last RPC handled: method, agent, outcome

regVars == <<now, agents, agentOrder, sweepPc, sweepStale, sweepIdx, wsOpen,
             wsAgentId, wsServerClosed, discovered, regCall>>

\* RuntimeTransport and Agent (protolink/transport/runtime_transport.py,
\* protolink/agents/base.py)
VARIABLES
    rtAgents,          \* RuntimeTransport.agents: url or name -> agent
    authProvider,      \* per agent: Agent.auth_provider is configured
    authContext,       \* per agent: Agent._auth_context
    request,           \* the incoming request at hand: the verify_request_auth
                       \* call made for it, if any, and how it ended
    sendTaskCall       \* the last send_task call: how it ended, and the agent
                       \* whose handler it invoked

dlvVars == <<rtAgents, authProvider, authContext, request, sendTaskCall>>

\* Task streaming: Agent.handle_task_streaming (protolink/agents/base.py,
\* examples/streaming_agent.py) consumed through subscribe_task
VARIABLES
    strGen,            \* the async generator of the subscription: which handler
                       \* it runs and what that handler was given
    strGenState,       \* "none", "created", "suspended" (at a yield), "finished"
                       \* (it returned) or "closed" (closed at a yield)
    strResumes,        \* how many times the generator was resumed (__anext__)
    strDelivered,      \* the events delivered to the subscriber, in order
    strState,          \* the subscription: "none", "open", "ended" or "cancelled"
    strSubs            \* number of subscribe_task calls made

strVars == <<strGen, strGenState, strResumes, strDelivered, strState, strSubs>>

\* HTTPTransport and its backend (protolink/transport/http_transport.py,
\* protolink/transport/backends/fastapi.py), and send_message of the
\* transports
VARIABLES
    httpHandler,       \* HTTPTransport._task_handler
    httpBindings,      \* the on_task_received calls so far, in order: the
                       \* handler given, and whether a listener was running
    httpRoutes,        \* number of "/tasks/" routes registered on the app
    httpListeners,     \* number of server tasks that are running
    httpServerTask,    \* the backend holds one (_server_task, _server_instance)
    httpClients,       \* number of httpx clients that are open
    httpClient,        \* the transport holds one (_client)
    httpRequest,       \* the request the "/tasks/" route is handling, if any
    httpCall,          \* the last start, stop or delivered task: how it ended
    sendMessageCall,   \* the last send_message call
    requestTimeout,    \* the timeout the caller configured (request_timeout
                       \* of ProtocolConfig, timeout of HTTPTransport)
    protoConnected,    \* Protocol.connected
    protoPending,      \* the call's future is in Protocol._pending_requests
    callPc,            \* "idle", or "waiting": a call awaits its result
    callKind,          \* which call: "protocol" (Protocol.send_message) or
                       \* "http" (HTTPTransport.send_task)
    callElapsed,       \* time the caller has waited so far
    callOutcome        \* how the last call ended

trVars == <<httpHandler, httpBindings, httpRoutes, httpListeners, httpServerTask,
            httpClients, httpClient, httpRequest, httpCall, sendMessageCall,
            requestTimeout, protoConnected, protoPending, callPc, callKind,
            callElapsed, callOutcome>>

\* What an operation of one component leaves alone: the other components.
\* ---- the context manager (core/context.py)
VARIABLES
    contexts,        \* ContextManager.contexts: context id -> Context
    ctxClock,        \* the wall clock datetime.now reads
    ctxCall          \* the last ContextManager call and what it returned or raised

ctxVars == <<contexts, ctxClock, ctxCall>>

\* ---- Transport.connect and Transport.disconnect (transport/base.py)
VARIABLES
    tConnected,      \* Transport._connected
    lockHolder,      \* the caller that holds _connection_lock, or None
    lockWaiters,     \* the callers waiting for _connection_lock, first come first
    connPc,          \* per caller: "idle", "waiting" (for the lock) or "impl"
    connOp,          \* per caller: the call it is in, "connect" or "disconnect"
    implLog          \* the executions of _connect_impl and _disconnect_impl that
                     \* have ended, in order, each with how it ended

connVars == <<tConnected, lockHolder, lockWaiters, connPc, connOp, implLog>>

\* ---- the WebSocket transport (transport/websocket.py)
VARIABLES
    wstAutoReconnect,  \* config.auto_reconnect
    wstConnected,      \* _connected
    wstSocket,         \* _ws: "none", or a socket that is "open" or "closed"
    wstReceiving,      \* the receive task runs
    wstPc,             \* _reconnect: "idle" (not running), "sleeping", "closing"
                       \* (awaiting _ws.close()) or "blocked" (awaiting a lock
                       \* it holds)
    wstRetry,          \* retry_count of _reconnect
    wstDelay,          \* the delay of _reconnect's last sleep
    wstCall            \* the last call on the transport and how it ended

wstVars == <<wstAutoReconnect, wstConnected, wstSocket, wstReceiving, wstPc, wstRetry,
             wstDelay, wstCall>>

\* The components added after the transports.
restVars == <<ctxVars, connVars, wstVars>>

TaskOnly == UNCHANGED <<sendVars, regVars, dlvVars, strVars, trVars, restVars>>

SendOnly == UNCHANGED <<taskVars, regVars, dlvVars, strVars, trVars, restVars>>

RegistryOnly == UNCHANGED <<taskVars, sendVars, dlvVars, strVars, trVars, restVars>>

DeliveryOnly == UNCHANGED <<taskVars, sendVars, regVars, strVars, trVars, restVars>>

StreamOnly == UNCHANGED <<taskVars, sendVars, regVars, dlvVars, trVars, restVars>>

TransportOnly == UNCHANGED <<taskVars, sendVars, regVars, strVars, restVars>>

ContextOnly ==
    UNCHANGED <<taskVars, sendVars, regVars, dlvVars, strVars, trVars, connVars, wstVars>>

ConnectOnly ==
    UNCHANGED <<taskVars, sendVars, regVars, dlvVars, strVars, trVars, ctxVars, wstVars>>

WebSocketOnly ==
    UNCHANGED <<taskVars, sendVars, regVars, dlvVars, strVars, trVars, ctxVars, connVars>>

\* An optional value: None, or a value.
Absent == [given |-> FALSE]

Given(v) == [given |-> TRUE, value |-> v]

\* ================================================================== Task
\* protolink/core/task.py


TaskIds == 1..NumTasks

\* class TaskStatus
PENDING == "pending"
RUNNING == "running"
COMPLETED == "completed"
FAILED == "failed"
CANCELLED == "cancelled"

TaskStatus == {PENDING, RUNNING, COMPLETED, FAILED, CANCELLED}

\* The statuses no helper leaves: completed, failed, cancelled.
TerminalStatus == {COMPLETED, FAILED, CANCELLED}

\* TaskResult(task_id, status, output, error); output and error by their shape.
TaskResultOf(t, status, output, error) ==
    [task_id |-> t, status |-> status, output |-> output, error |-> error]

\* TaskResult.from_exception: the error carries the exception's type and message.
FromException(t, status) == TaskResultOf(t, status, None, "exception")

\* Task(type=...): status defaults to PENDING, the other fields to None.
TaskInit ==
    /\ taskStatus = [t \in TaskIds |-> PENDING]
    /\ taskStartedAt = [t \in TaskIds |-> FALSE]
    /\ taskCompletedAt = [t \in TaskIds |-> FALSE]
    /\ taskResult = [t \in TaskIds |-> None]
    /\ taskCall = [op |-> None, task |-> 0, before |-> None, outcome |-> None]

\* start() that also proceeds on a task that is already running.
StartAllowedWhenRunning(s) == s \in {PENDING, RUNNING}

\* fail() with the guard of complete(): only a running task.
FailAllowedWhenRunning(s) == s = RUNNING

\* The guards of the helper methods: the status in which each one proceeds.
StartAllowed(s) == s = PENDING

CompleteAllowed(s) == s = RUNNING

FailAllowed(s) == s \in {PENDING, RUNNING}

CancelAlwaysAllowed(s) == TRUE

CancelAllowed(s) == s \in {PENDING, RUNNING}

\* A helper that raises ValueError changes nothing of the task.
Rejected(op, t) ==
    /\ TaskOnly
    /\ taskCall' = [op |-> op, task |-> t, before |-> taskStatus[t],
                    outcome |-> "ValueError"]
    /\ UNCHANGED <<taskStatus, taskStartedAt, taskCompletedAt, taskResult>>

Accepted(op, t) ==
    /\ TaskOnly
    /\ taskCall' = [op |-> op, task |-> t, before |-> taskStatus[t], outcome |-> "ok"]

\* Task.start()
Start(t) ==
    IF ~StartAllowed(taskStatus[t])
    THEN Rejected("start", t)
    ELSE /\ taskStatus' = [taskStatus EXCEPT ![t] = RUNNING]
         /\ taskStartedAt' = [taskStartedAt EXCEPT ![t] = TRUE]
         /\ Accepted("start", t)
         /\ UNCHANGED <<taskCompletedAt, taskResult>>

\* Task.complete(result): result is None, an empty dict or a dict with data;
\* the TaskResult's output is `result or {}`.
Complete(t, result) ==
    IF ~CompleteAllowed(taskStatus[t])
    THEN Rejected("complete", t)
    ELSE /\ taskStatus' = [taskStatus EXCEPT ![t] = COMPLETED]
         /\ taskCompletedAt' = [taskCompletedAt EXCEPT ![t] = TRUE]
         /\ taskResult' = [taskResult EXCEPT ![t] =
                TaskResultOf(t, COMPLETED, IF result = "data" THEN "data" ELSE "empty", None)]
         /\ Accepted("complete", t)
         /\ UNCHANGED taskStartedAt

\* Task.fail(error): error is a string or an exception.
Fail(t, error) ==
    IF ~FailAllowed(taskStatus[t])
    THEN Rejected("fail", t)
    ELSE /\ taskStatus' = [taskStatus EXCEPT ![t] = FAILED]
         /\ taskCompletedAt' = [taskCompletedAt EXCEPT ![t] = TRUE]
         /\ taskResult' = [taskResult EXCEPT ![t] =
                IF error = "exception"
                THEN FromException(t, FAILED)
                ELSE TaskResultOf(t, FAILED, None, "message")]
         /\ Accepted("fail", t)
         /\ UNCHANGED taskStartedAt

\* Task.cancel()
Cancel(t) ==
    IF ~CancelAllowed(taskStatus[t])
    THEN Rejected("cancel", t)
    ELSE /\ taskStatus' = [taskStatus EXCEPT ![t] = CANCELLED]
         /\ taskCompletedAt' = [taskCompletedAt EXCEPT ![t] = TRUE]
         /\ taskResult' = [taskResult EXCEPT ![t] = TaskResultOf(t, CANCELLED, None, None)]
         /\ Accepted("cancel", t)
         /\ UNCHANGED taskStartedAt

\* pydantic's Config.validate_assignment: Task sets no Config, so the default.
ValidateAssignment == FALSE

\* The `values` a field validator is called with: the fields validated before
\* the field, by name; for `status` these are `id` and `type`, and never
\* `status` itself.
ValuesBeforeStatus(t) == [id |-> t, type |-> "type"]

\* Task.validate_status(v, values): raises ValueError when `values` holds a
\* terminal status under 'status', and returns v otherwise.
ValidateStatus(v, values) ==
    IF "status" \in DOMAIN values
    THEN (IF values["status"] \in TerminalStatus THEN "ValueError" ELSE v)
    ELSE v

\* task.status = s, the assignment the callers of Task make: pydantic stores
\* the value, through the validators of the field only under
\* validate_assignment.
AssignStatus(t, s) ==
    LET v == IF ValidateAssignment THEN ValidateStatus(s, ValuesBeforeStatus(t)) ELSE s
    IN IF v = "ValueError"
       THEN Rejected("assign", t)
       ELSE /\ taskStatus' = [taskStatus EXCEPT ![t] = v]
            /\ Accepted("assign", t)
            /\ UNCHANGED <<taskStartedAt, taskCompletedAt, taskResult>>

TaskNext ==
    \/ \E t \in TaskIds : \E s \in TaskStatus : AssignStatus(t, s)
    \/ \E t \in TaskIds : Start(t)
    \/ \E t \in TaskIds : \E result \in {None, "empty", "data"} : Complete(t, result)
    \/ \E t \in TaskIds : \E error \in {"message", "exception"} : Fail(t, error)
    \/ \E t \in TaskIds : Cancel(t)

\* ================================================================== HTTP send
\* protolink/transport/http.py, HTTPTransport._send_message_impl


\* What one session.post can do: answer 2xx, time out (asyncio.TimeoutError),
\* fail in the client (aiohttp.ClientError: connection reset, refused, ...),
\* answer with a 4xx or a 5xx status, or raise anything else.
Ok == "ok"
BackendOutcomes == {Ok, "timeout", "connection", "status4xx", "status5xx", "unexpected"}

\* The transient transport failures: timeout and connection failure.
Transient == {"timeout", "connection"}

\* The `except` clause an outcome of the post ends in. A status >= 400 is
\* raised by the session as ClientResponseError (an aiohttp.ClientError) when
\* raise_for_status is set, and otherwise by line 128 as MessageDeliveryError,
\* which only `except Exception` catches.
ExceptClause(outcome) ==
    CASE outcome = "timeout" -> "Request timed out"
      [] outcome = "connection" -> "HTTP client error"
      [] outcome \in {"status4xx", "status5xx"} ->
            IF raiseForStatus THEN "HTTP client error" ELSE "Unexpected error"
      [] OTHER -> "Unexpected error"

\* MessageDeliveryError(f"<clause>: {e}") built from the error of one attempt.
DeliveryError(outcome, n) ==
    [type |-> "MessageDeliveryError", message |-> ExceptClause(outcome),
     cause |-> outcome, attempt |-> n]

\* MessageDeliveryError("Failed to send message"): no attempt left an error.
NoAttemptError ==
    [type |-> "MessageDeliveryError", message |-> "Failed to send message",
     cause |-> None, attempt |-> 0]

OtherError(type) == [type |-> type, message |-> None, cause |-> None, attempt |-> 0]

\* Base delays (config.reconnect_delay, in seconds) the send is checked with:
\* the default 1.0 and one that reaches the cap within the attempt limit.
BaseDelays == {1, 16}

RECURSIVE Pow2(_)
\* 2 ** n
Pow2(n) == IF n = 0 THEN 1 ELSE 2 * Pow2(n - 1)

\* reconnect_delay * 2 ** attempt, without the cap
BackoffDelayUncapped(a) == reconnectDelay * Pow2(a)

\* min(reconnect_delay * 2 ** attempt, 30)
BackoffDelay(a) ==
    IF reconnectDelay * Pow2(a) < BackoffCap THEN reconnectDelay * Pow2(a) ELSE BackoffCap

\* `for attempt in range(reconnect_attempts)`: there is an iteration after a.
HasNextOneShort(a) == a + 2 < reconnectAttempts

HasNextAttempt(a) == a + 1 < reconnectAttempts

\* A transport with the configuration (attempts, delay, raise_for_status) and
\* no send started.
SendIdle(attempts, delay, rfs) ==
    /\ reconnectAttempts = attempts
    /\ reconnectDelay = delay
    /\ raiseForStatus = rfs
    /\ sendPc = "idle"
    /\ attempt = 0
    /\ posts = 0
    /\ outcomes = <<>>
    /\ lastError = None
    /\ sleeps = <<>>
    /\ sendResult = None
    /\ sendError = None

\* Entry of _send_message_impl up to the first post: the session and endpoint
\* checks, then the loop header. With no iteration at all the loop falls
\* through to `raise last_error or MessageDeliveryError(...)`.
SendStart(connected, hasEndpoint) ==
    /\ sendPc = "idle"
    /\ SendOnly
    /\ IF ~connected
       THEN sendPc' = "raised" /\ sendError' = OtherError("TransportError")
       ELSE IF ~hasEndpoint
       THEN sendPc' = "raised" /\ sendError' = OtherError("ValueError")
       ELSE IF reconnectAttempts <= 0
       THEN sendPc' = "raised" /\ sendError' = NoAttemptError
       ELSE sendPc' = "post" /\ sendError' = sendError
    /\ UNCHANGED <<reconnectAttempts, reconnectDelay, raiseForStatus, attempt, posts,
                   outcomes, lastError, sleeps, sendResult>>

\* One iteration of the loop body: the post and the except clauses, up to the
\* backoff sleep or, after the last iteration, the raise of last_error.
Post(outcome) ==
    /\ sendPc = "post"
    /\ SendOnly
    /\ posts' = posts + 1
    /\ outcomes' = Append(outcomes, outcome)
    /\ IF outcome = Ok
       THEN /\ sendPc' = "returned"
            /\ sendResult' = "response"
            /\ UNCHANGED <<lastError, sendError>>
       ELSE /\ lastError' = DeliveryError(outcome, attempt + 1)
            /\ sendResult' = sendResult
            /\ IF HasNextAttempt(attempt)
               THEN sendPc' = "sleep" /\ sendError' = sendError
               ELSE sendPc' = "raised" /\ sendError' = lastError'
    /\ UNCHANGED <<reconnectAttempts, reconnectDelay, raiseForStatus, attempt, sleeps>>

\* await asyncio.sleep(min(delay, 30)), then the next iteration.
Backoff ==
    /\ sendPc = "sleep"
    /\ SendOnly
    /\ sleeps' = Append(sleeps, BackoffDelay(attempt))
    /\ attempt' = attempt + 1
    /\ sendPc' = "post"
    /\ UNCHANGED <<reconnectAttempts, reconnectDelay, raiseForStatus, posts, outcomes,
                   lastError, sendResult, sendError>>

SendNext ==
    \/ \E connected \in BOOLEAN : \E hasEndpoint \in BOOLEAN :
          SendStart(connected, hasEndpoint)
    \/ \E outcome \in BackendOutcomes : Post(outcome)
    \/ Backoff


\* ================================================================== Registry
\* protolink/discovery/registry.py

\* The agent ids and the WebSocket connections the registry is checked with.
AgentIds == {"a1", "a2"}

Conns == {"c1"}

\* Agent names are strings: sequences of characters.
Lower(ch) == CASE ch = "A" -> "a" [] ch = "B" -> "b" [] OTHER -> ch

\* str.lower()
LowerStr(str) == [i \in 1..Len(str) |-> Lower(str[i])]

\* `sub in str` for strings
IsSubstring(sub, str) ==
    \E i \in 0..(Len(str) - Len(sub)) : SubSeq(str, i + 1, i + Len(sub)) = sub

\* The AgentInfo values an agent registers with: name and capabilities.
AgentInfos ==
    { [name |-> <<"A", "b">>, can_process |-> {"x"}, can_provide |-> {"y"}],
      [name |-> <<"b">>, can_process |-> {}, can_provide |-> {"x"}] }

\* The filters of a discovery request, <<capabilities, name>>: capabilities is
\* None or a list, name is None or a string.
DiscoverFilters ==
    { <<Absent, Absent>>,
      <<Given({}), Given(<<>>)>>,
      <<Given({"x"}), Absent>>,
      <<Absent, Given(<<"B">>)>>,
      <<Given({"x", "y"}), Given(<<"a">>)>> }

\* Python's truth value of an optional list or string: None and empty are false.
Truthy(arg, empty) == arg.given /\ arg.value # empty

\* RegisteredAgent(info=...): last_seen defaults to utcnow(), ws_connection to None.
RegisteredAgent(info) == [info |-> info, last_seen |-> now, ws_connection |-> None]

\* (t - agent.last_seen).total_seconds() > config.heartbeat_timeout
IsStale(agent, t) == t - agent.last_seen > HeartbeatTimeout

\* _find_agents with a name filter that asks for the very name.
MatchesFiltersExactName(agent, capabilities, name) ==
    /\ ~(Truthy(name, <<>>) /\ name.value # agent.info.name)
    /\ ~(Truthy(capabilities, {})
           /\ ~(\A cap \in capabilities.value :
                   cap \in agent.info.can_process \/ cap \in agent.info.can_provide))

\* The agent passes the name and capabilities filters of _find_agents.
MatchesFilters(agent, capabilities, name) ==
    /\ ~(Truthy(name, <<>>)
           /\ ~IsSubstring(LowerStr(name.value), LowerStr(agent.info.name)))
    /\ ~(Truthy(capabilities, {})
           /\ ~(\A cap \in capabilities.value :
                   cap \in agent.info.can_process \/ cap \in agent.info.can_provide))

\* _find_agents without its test `Skip stale agents`.
KeepAgentIgnoringAge(agent, capabilities, name) == MatchesFilters(agent, capabilities, name)

\* One iteration of the loop of _find_agents: the agent is appended to `matching`.
KeepAgent(agent, capabilities, name) ==
    /\ ~IsStale(agent, now)
    /\ MatchesFilters(agent, capabilities, name)

RECURSIVE FindFrom(_, _, _)
FindFrom(order, capabilities, name) ==
    IF order = <<>> THEN <<>>
    ELSE (IF KeepAgent(agents[Head(order)], capabilities, name)
          THEN <<Head(order)>> ELSE <<>>)
         \o FindFrom(Tail(order), capabilities, name)

\* Registry._find_agents: the matching agents, in the order of the dict.
FindAgents(capabilities, name) == FindFrom(agentOrder, capabilities, name)

RegistryInit ==
    /\ now = 0
    /\ agents = <<>>
    /\ agentOrder = <<>>
    /\ sweepPc = "sleeping"
    /\ sweepStale = <<>>
    /\ sweepIdx = 0
    /\ wsOpen = [c \in Conns |-> FALSE]
    /\ wsAgentId = [c \in Conns |-> None]
    /\ wsServerClosed = [c \in Conns |-> FALSE]
    /\ discovered = <<>>
    /\ regCall = [method |-> None, agent |-> None, outcome |-> None]

\* Time passes.
Tick ==
    /\ RegistryOnly
    /\ now < MaxTime
    /\ now' = now + 1
    /\ UNCHANGED <<agents, agentOrder, sweepPc, sweepStale, sweepIdx, wsOpen,
                   wsAgentId, wsServerClosed, discovered, regCall>>

\* register_agent without its `already registered` test: an upsert.
RegisterAgentUpsert(id, info) ==
    /\ RegistryOnly
    /\ agents' = [a \in DOMAIN agents \cup {id} |->
                    IF a = id THEN RegisteredAgent(info) ELSE agents[a]]
    /\ agentOrder' = IF id \in DOMAIN agents THEN agentOrder ELSE Append(agentOrder, id)
    /\ regCall' = [method |-> "register_agent", agent |-> id, outcome |-> "success"]
    /\ UNCHANGED <<now, sweepPc, sweepStale, sweepIdx, wsOpen, wsAgentId,
                   wsServerClosed, discovered>>

\* Registry.register_agent
RegisterAgent(id, info) ==
    /\ RegistryOnly
    /\ IF id \in DOMAIN agents
       THEN /\ regCall' = [method |-> "register_agent", agent |-> id,
                           outcome |-> "ValueError"]
            /\ UNCHANGED <<agents, agentOrder>>
       ELSE /\ agents' = [a \in DOMAIN agents \cup {id} |->
                            IF a = id THEN RegisteredAgent(info) ELSE agents[a]]
            /\ agentOrder' = Append(agentOrder, id)
            /\ regCall' = [method |-> "register_agent", agent |-> id, outcome |-> "success"]
    /\ UNCHANGED <<now, sweepPc, sweepStale, sweepIdx, wsOpen, wsAgentId,
                   wsServerClosed, discovered>>

\* heartbeat that makes an entry for an id it does not know.
HeartbeatUpsert(id) ==
    /\ RegistryOnly
    /\ IF id \notin DOMAIN agents
       THEN /\ \E info \in AgentInfos :
                  agents' = [a \in DOMAIN agents \cup {id} |->
                               IF a = id THEN RegisteredAgent(info) ELSE agents[a]]
            /\ agentOrder' = Append(agentOrder, id)
       ELSE /\ agents' = [agents EXCEPT ![id].last_seen = now]
            /\ UNCHANGED agentOrder
    /\ regCall' = [method |-> "heartbeat", agent |-> id, outcome |-> "ok"]
    /\ UNCHANGED <<now, sweepPc, sweepStale, sweepIdx, wsOpen, wsAgentId,
                   wsServerClosed, discovered>>

\* Registry.heartbeat
Heartbeat(id) ==
    /\ RegistryOnly
    /\ IF id \notin DOMAIN agents
       THEN /\ regCall' = [method |-> "heartbeat", agent |-> id, outcome |-> "ValueError"]
            /\ UNCHANGED agents
       ELSE /\ agents' = [agents EXCEPT ![id].last_seen = now]
            /\ regCall' = [method |-> "heartbeat", agent |-> id, outcome |-> "ok"]
    /\ UNCHANGED <<now, agentOrder, sweepPc, sweepStale, sweepIdx, wsOpen, wsAgentId,
                   wsServerClosed, discovered>>

\* Registry.discover_agents
DiscoverAgents(capabilities, name) ==
    /\ RegistryOnly
    /\ discovered' = FindAgents(capabilities, name)
    /\ regCall' = [method |-> "discover_agents", agent |-> None, outcome |-> "ok"]
    /\ UNCHANGED <<now, agents, agentOrder, sweepPc, sweepStale, sweepIdx, wsOpen,
                   wsAgentId, wsServerClosed>>

\* The dict without one key, and its key order without it.
Without(ags, id) == [a \in DOMAIN ags \ {id} |-> ags[a]]

RECURSIVE OrderWithout(_, _)
OrderWithout(order, id) ==
    IF order = <<>> THEN <<>>
    ELSE (IF Head(order) = id THEN <<>> ELSE <<Head(order)>>)
         \o OrderWithout(Tail(order), id)

\* A first loop that stops at the first stale id it finds.
RECURSIVE StaleFromFirstOnly(_, _)
StaleFromFirstOnly(order, t) ==
    IF order = <<>> THEN <<>>
    ELSE IF IsStale(agents[Head(order)], t) THEN <<Head(order)>>
    ELSE StaleFromFirstOnly(Tail(order), t)

\* The first loop of _cleanup_stale_agents: the ids whose age at t exceeds the
\* timeout, in the order of the dict.
RECURSIVE StaleFrom(_, _)
StaleFrom(order, t) ==
    IF order = <<>> THEN <<>>
    ELSE (IF IsStale(agents[Head(order)], t) THEN <<Head(order)>> ELSE <<>>)
         \o StaleFrom(Tail(order), t)

\* The second loop of _cleanup_stale_agents from position i of `stale` on, up
\* to its next suspension: an agent without a connection is deleted at once; at
\* the first agent with a connection the sweep awaits ws_connection.close().
RECURSIVE RemoveStale(_, _, _, _)
RemoveStale(ags, order, stale, i) ==
    IF i > Len(stale)
    THEN [agents |-> ags, order |-> order, pc |-> "sleeping", idx |-> 0]
    ELSE IF ags[stale[i]].ws_connection # None
    THEN [agents |-> ags, order |-> order, pc |-> "closing", idx |-> i]
    ELSE RemoveStale(Without(ags, stale[i]), OrderWithout(order, stale[i]), stale, i + 1)

\* What a run of the second loop leaves, r being the result of RemoveStale.
SweepTo(r, stale) ==
    /\ agents' = r.agents
    /\ agentOrder' = r.order
    /\ sweepPc' = r.pc
    /\ sweepIdx' = r.idx
    /\ sweepStale' = IF r.pc = "closing" THEN stale ELSE <<>>
    /\ wsServerClosed' =
          IF r.pc = "closing"
          THEN [wsServerClosed EXCEPT ![r.agents[stale[r.idx]].ws_connection] = TRUE]
          ELSE wsServerClosed

\* _cleanup_loop wakes up and _cleanup_stale_agents runs to its first await,
\* or to its end.
SweepStart ==
    /\ RegistryOnly
    /\ sweepPc = "sleeping"
    /\ LET stale == StaleFrom(agentOrder, now)
       IN SweepTo(RemoveStale(agents, agentOrder, stale, 1), stale)
    /\ UNCHANGED <<now, wsOpen, wsAgentId, discovered, regCall>>

\* ws_connection.close() has returned or raised: `del self.agents[agent_id]`,
\* then the loop goes on to its next await or to its end.
SweepResume ==
    /\ RegistryOnly
    /\ sweepPc = "closing"
    /\ LET id == sweepStale[sweepIdx]
       IN SweepTo(RemoveStale(Without(agents, id), OrderWithout(agentOrder, id),
                              sweepStale, sweepIdx + 1), sweepStale)
    /\ UNCHANGED <<now, wsOpen, wsAgentId, discovered, regCall>>

\* A client opens a WebSocket: websocket_endpoint accepts it, agent_id = None.
WsConnect(c) ==
    /\ RegistryOnly
    /\ ~wsOpen[c]
    /\ wsOpen' = [wsOpen EXCEPT ![c] = TRUE]
    /\ wsAgentId' = [wsAgentId EXCEPT ![c] = None]
    /\ wsServerClosed' = [wsServerClosed EXCEPT ![c] = FALSE]
    /\ UNCHANGED <<now, agents, agentOrder, sweepPc, sweepStale, sweepIdx, discovered,
                   regCall>>

\* The connection can deliver a message to websocket_endpoint.
WsReceiving(c) == wsOpen[c] /\ ~wsServerClosed[c]

\* websocket_endpoint, MessageType.REGISTER from `sender`: a registered agent
\* gets the connection and a fresh last_seen; for any other sender the
\* connection is closed and the endpoint ends (its `finally` finds no agent).
WsRegister(c, sender) ==
    /\ RegistryOnly
    /\ WsReceiving(c)
    /\ IF sender \in DOMAIN agents
       THEN /\ agents' = [agents EXCEPT ![sender].ws_connection = c,
                                        ![sender].last_seen = now]
            /\ wsAgentId' = [wsAgentId EXCEPT ![c] = sender]
            /\ UNCHANGED wsOpen
       ELSE /\ wsOpen' = [wsOpen EXCEPT ![c] = FALSE]
            /\ wsAgentId' = [wsAgentId EXCEPT ![c] = None]
            /\ UNCHANGED agents
    /\ UNCHANGED <<now, agentOrder, sweepPc, sweepStale, sweepIdx, wsServerClosed,
                   discovered, regCall>>

\* websocket_endpoint, MessageType.HEARTBEAT
WsHeartbeat(c) ==
    /\ RegistryOnly
    /\ WsReceiving(c)
    /\ agents' = IF wsAgentId[c] \in DOMAIN agents
                 THEN [agents EXCEPT ![wsAgentId[c]].last_seen = now]
                 ELSE agents
    /\ UNCHANGED <<now, agentOrder, sweepPc, sweepStale, sweepIdx, wsOpen, wsAgentId,
                   wsServerClosed, discovered, regCall>>

\* websocket_endpoint, MessageType.DISCOVER
WsDiscover(c, capabilities, name) ==
    /\ RegistryOnly
    /\ WsReceiving(c)
    /\ discovered' = FindAgents(capabilities, name)
    /\ UNCHANGED <<now, agents, agentOrder, sweepPc, sweepStale, sweepIdx, wsOpen,
                   wsAgentId, wsServerClosed, regCall>>

\* The connection ends (closed by the client or by the registry): the
\* `finally` of websocket_endpoint clears the agent's ws_connection.
WsDisconnect(c) ==
    /\ RegistryOnly
    /\ wsOpen[c]
    /\ agents' = IF wsAgentId[c] \in DOMAIN agents
                 THEN [agents EXCEPT ![wsAgentId[c]].ws_connection = None]
                 ELSE agents
    /\ wsOpen' = [wsOpen EXCEPT ![c] = FALSE]
    /\ wsAgentId' = [wsAgentId EXCEPT ![c] = None]
    /\ wsServerClosed' = [wsServerClosed EXCEPT ![c] = FALSE]
    /\ UNCHANGED <<now, agentOrder, sweepPc, sweepStale, sweepIdx, discovered, regCall>>

RegistryNext ==
    \/ Tick
    \/ \E id \in AgentIds : \E info \in AgentInfos : RegisterAgent(id, info)
    \/ \E id \in AgentIds : Heartbeat(id)
    \/ \E f \in DiscoverFilters : DiscoverAgents(f[1], f[2])
    \/ SweepStart
    \/ SweepResume
    \/ \E c \in Conns : WsConnect(c)
    \/ \E c \in Conns : \E sender \in AgentIds : WsRegister(c, sender)
    \/ \E c \in Conns : WsHeartbeat(c)
    \/ \E c \in Conns : \E f \in DiscoverFilters : WsDiscover(c, f[1], f[2])
    \/ \E c \in Conns : WsDisconnect(c)

\* The registry without discovery: registrations, heartbeats, connections and
\* the sweep.
SweepNext ==
    \/ Tick
    \/ \E id \in AgentIds : \E info \in AgentInfos : RegisterAgent(id, info)
    \/ \E id \in AgentIds : Heartbeat(id)
    \/ SweepStart
    \/ SweepResume
    \/ \E c \in Conns : WsConnect(c)
    \/ \E c \in Conns : \E sender \in AgentIds : WsRegister(c, sender)
    \/ \E c \in Conns : WsHeartbeat(c)
    \/ \E c \in Conns : WsDisconnect(c)

\* ================================================================== contexts
ContextIds == {"x1", "x2"}

\* A ContextManager call: the operation, the id it was given, what it returned
\* or raised, the ids of a returned list and a returned count.
ContextCall(op, id, result, listed, count) ==
    [op |-> op, id |-> id, result |-> result, listed |-> listed, count |-> count]

\* ContextManager(): no contexts.
ContextInit ==
    /\ contexts = [id \in {} |-> 0]
    /\ ctxClock = 0
    /\ ctxCall = ContextCall(None, None, None, {}, 0)

ContextTick ==
    /\ ctxClock < MaxTime
    /\ ctxClock' = ctxClock + 1
    /\ UNCHANGED <<contexts, ctxCall>>
    /\ ContextOnly

\* datetime.now(datetime.timezone.utc): the module imports the class
\* (from datetime import datetime), and the class has no attribute timezone,
\* so evaluating the argument raises AttributeError.
UtcNowRaises == TRUE

\* A Context built with both timestamps given, so that neither default is
\* evaluated, and put in the manager's map under its id.
StoreContext(id, count) ==
    /\ contexts' = [x \in DOMAIN contexts \cup {id} |->
                       IF x = id
                       THEN [messages |-> count, created_at |-> ctxClock,
                             last_accessed |-> ctxClock]
                       ELSE contexts[x]]
    /\ ctxCall' = ContextCall("store", id, None, {}, 0)
    /\ UNCHANGED ctxClock
    /\ ContextOnly

\* create_context: Context(context_id=...) evaluates the default of
\* created_at, which raises before the map is assigned.
CreateContext(id) ==
    /\ IF UtcNowRaises
       THEN /\ ctxCall' = ContextCall("create_context", id, "AttributeError", {}, 0)
            /\ UNCHANGED contexts
       ELSE /\ contexts' = [x \in DOMAIN contexts \cup {id} |->
                               IF x = id
                               THEN [messages |-> 0, created_at |-> ctxClock,
                                     last_accessed |-> ctxClock]
                               ELSE contexts[x]]
            /\ ctxCall' = ContextCall("create_context", id, "Context", {}, 0)
    /\ UNCHANGED ctxClock
    /\ ContextOnly

\* A lookup that subscripts the map.
GetContextSubscript(ctxs, id, t) ==
    IF id \notin DOMAIN ctxs
    THEN [result |-> "KeyError", contexts |-> ctxs]
    ELSE IF UtcNowRaises
    THEN [result |-> "AttributeError", contexts |-> ctxs]
    ELSE [result |-> "Context",
          contexts |-> [ctxs EXCEPT ![id].last_accessed = t]]

\* get_context: what it returns or raises, and the map it leaves.
GetContextOutcome(ctxs, id, t) ==
    IF id \notin DOMAIN ctxs
    THEN [result |-> "None", contexts |-> ctxs]
    ELSE IF UtcNowRaises
    THEN [result |-> "AttributeError", contexts |-> ctxs]
    ELSE [result |-> "Context",
          contexts |-> [ctxs EXCEPT ![id].last_accessed = t]]

GetContext(id) ==
    LET got == GetContextOutcome(contexts, id, ctxClock) IN
    /\ contexts' = got.contexts
    /\ ctxCall' = ContextCall("get_context", id, got.result, {}, 0)
    /\ UNCHANGED ctxClock
    /\ ContextOnly

\* add_message_to_context: the lookup, then Context.add_message, which appends
\* and reads the clock again.
AddMessageToContext(id) ==
    LET got == GetContextOutcome(contexts, id, ctxClock) IN
    /\ IF got.result = "Context"
       THEN IF UtcNowRaises
            THEN /\ contexts' = [got.contexts EXCEPT ![id].messages = @ + 1]
                 /\ ctxCall' = ContextCall("add_message_to_context", id,
                                           "AttributeError", {}, 0)
            ELSE /\ contexts' = [got.contexts EXCEPT ![id].messages = @ + 1,
                                                    ![id].last_accessed = ctxClock]
                 /\ ctxCall' = ContextCall("add_message_to_context", id, "True", {}, 0)
       ELSE /\ contexts' = got.contexts
            /\ ctxCall' = ContextCall("add_message_to_context", id,
                                      IF got.result = "None" THEN "False" ELSE got.result,
                                      {}, 0)
    /\ UNCHANGED ctxClock
    /\ ContextOnly

DeleteContext(id) ==
    /\ IF id \in DOMAIN contexts
       THEN /\ contexts' = [x \in DOMAIN contexts \ {id} |-> contexts[x]]
            /\ ctxCall' = ContextCall("delete_context", id, "True", {}, 0)
       ELSE /\ UNCHANGED contexts
            /\ ctxCall' = ContextCall("delete_context", id, "False", {}, 0)
    /\ UNCHANGED ctxClock
    /\ ContextOnly

\* list_contexts: the values of the map, as they are.
ListContexts ==
    /\ ctxCall' = ContextCall("list_contexts", None, "list", DOMAIN contexts, 0)
    /\ UNCHANGED <<contexts, ctxClock>>
    /\ ContextOnly

ClearAll ==
    /\ contexts' = [id \in {} |-> 0]
    /\ ctxCall' = ContextCall("clear_all", None, None, {}, 0)
    /\ UNCHANGED ctxClock
    /\ ContextOnly

GetContextMessageCount(id) ==
    LET got == GetContextOutcome(contexts, id, ctxClock) IN
    /\ contexts' = got.contexts
    /\ ctxCall' =
           IF got.result = "Context"
           THEN ContextCall("get_context_message_count", id, "int", {},
                            got.contexts[id].messages)
           ELSE IF got.result = "None"
           THEN ContextCall("get_context_message_count", id, "int", {}, 0)
           ELSE ContextCall("get_context_message_count", id, got.result, {}, 0)
    /\ UNCHANGED ctxClock
    /\ ContextOnly

ContextNext ==
    \/ ContextTick
    \/ \E id \in ContextIds : \E count \in 0..MaxMessages : StoreContext(id, count)
    \/ \E id \in ContextIds : CreateContext(id)
    \/ \E id \in ContextIds : GetContext(id)
    \/ \E id \in ContextIds : AddMessageToContext(id)
    \/ \E id \in ContextIds : DeleteContext(id)
    \/ ListContexts
    \/ ClearAll
    \/ \E id \in ContextIds : GetContextMessageCount(id)

\* ================================================================== connect
\* protolink/transport/base.py (Transport.connect, Transport.disconnect)

Callers == {"t1", "t2"}

ImplOutcomes == {"returned", "raised"}

\* Transport.__init__: not connected, the lock free.
ConnectInit ==
    /\ tConnected = FALSE
    /\ lockHolder = None
    /\ lockWaiters = <<>>
    /\ connPc = [t \in Callers |-> "idle"]
    /\ connOp = [t \in Callers |-> None]
    /\ implLog = <<>>

\* The test before the lock: connect goes on when not connected, disconnect
\* when connected.
Wanted(op) == (op = "connect") = ~tConnected

\* A body of the `async with` that runs the implementation without testing
\* _connected again.
LockedCheckSkipped(op) == TRUE

\* The test under the lock: `if not self._connected` in connect,
\* `if self._connected` in disconnect.
LockedCheck(op) == Wanted(op)

\* The caller has the lock: after the test under the lock the implementation
\* starts, or the lock is released and the call returns.
Locked(t, op) ==
    IF LockedCheck(op)
    THEN /\ lockHolder' = t
         /\ connPc' = [connPc EXCEPT ![t] = "impl"]
    ELSE /\ lockHolder' = None
         /\ connPc' = [connPc EXCEPT ![t] = "idle"]

\* connect() or disconnect() up to its first suspension: it returns at once
\* when there is nothing to do; it takes the lock if the lock is free and
\* nobody waits for it, and queues for it otherwise.
ConnCall(t, op) ==
    /\ ConnectOnly
    /\ connPc[t] = "idle"
    /\ Len(implLog) < MaxImpls
    /\ connOp' = [connOp EXCEPT ![t] = op]
    /\ IF ~Wanted(op)
       THEN UNCHANGED <<lockHolder, lockWaiters, connPc>>
       ELSE IF lockHolder = None /\ lockWaiters = <<>>
       THEN Locked(t, op) /\ UNCHANGED lockWaiters
       ELSE /\ lockWaiters' = Append(lockWaiters, t)
            /\ connPc' = [connPc EXCEPT ![t] = "waiting"]
            /\ UNCHANGED lockHolder
    /\ UNCHANGED <<tConnected, implLog>>

\* The first waiter gets the released lock.
ConnAcquire(t) ==
    /\ ConnectOnly
    /\ connPc[t] = "waiting"
    /\ lockHolder = None
    /\ lockWaiters # <<>> /\ Head(lockWaiters) = t
    /\ lockWaiters' = Tail(lockWaiters)
    /\ Locked(t, connOp[t])
    /\ UNCHANGED <<tConnected, connOp, implLog>>

\* _connect_impl or _disconnect_impl ends: when it returns, _connected is
\* assigned; when it raises, the assignment is skipped. The lock is released
\* either way.
ConnImplEnds(t, outcome) ==
    /\ ConnectOnly
    /\ connPc[t] = "impl"
    /\ implLog' = Append(implLog, <<connOp[t], outcome>>)
    /\ tConnected' = IF outcome = "returned" THEN connOp[t] = "connect" ELSE tConnected
    /\ lockHolder' = None
    /\ connPc' = [connPc EXCEPT ![t] = "idle"]
    /\ UNCHANGED <<lockWaiters, connOp>>

ConnectNext ==
    \/ \E t \in Callers : \E op \in {"connect", "disconnect"} : ConnCall(t, op)
    \/ \E t \in Callers : ConnAcquire(t)
    \/ \E t \in Callers : \E outcome \in ImplOutcomes : ConnImplEnds(t, outcome)

\* ================================================================== websocket
\* protolink/transport/websocket.py (WebSocketTransport)

\* What successive calls of websockets.connect would give.
ConnectOutcomes == {<<"ok">>, <<"fail", "ok">>, <<"fail", "fail">>}

\* A call on the transport: the operation, the calls of websockets.connect it
\* made, and how it ended.
WstCall(op, attempts, outcome) == [op |-> op, attempts |-> attempts, outcome |-> outcome]

\* WebSocketTransport(config): no socket, no receive task, not connected.
WebSocketInit ==
    /\ wstAutoReconnect \in BOOLEAN
    /\ wstConnected = FALSE
    /\ wstSocket = "none"
    /\ wstReceiving = FALSE
    /\ wstPc = "idle"
    /\ wstRetry = 0
    /\ wstDelay = 0
    /\ wstCall = WstCall(None, 0, None)

\* WebSocketConfig's default: auto_reconnect = True.
WebSocketDefault == WebSocketInit /\ wstAutoReconnect

RestInit == ContextInit /\ ConnectInit /\ WebSocketDefault

\* The property is_connected: there is a socket and it is not closed.
IsConnected(socket) == socket = "open"

\* min(reconnect_interval * 2 ** retry_count, 60.0)
ReconnectDelay(retry) ==
    IF ReconnectInterval * Pow2(retry) < ReconnectCap
    THEN ReconnectInterval * Pow2(retry)
    ELSE ReconnectCap

\* connect(): Transport.connect around _connect_impl, which starts the receive
\* task unless a socket is open. A connected transport returns at once.
\* (_connect_impl takes _reconnect_lock: the call goes through when no
\* reconnection holds it.)
TransportConnect ==
    /\ WebSocketOnly
    /\ wstPc = "idle"
    /\ wstCall' = WstCall("connect", 0, "returned")
    /\ IF wstConnected
       THEN UNCHANGED <<wstConnected, wstReceiving>>
       ELSE /\ wstConnected' = TRUE
            /\ wstReceiving' = IF IsConnected(wstSocket) THEN wstReceiving ELSE TRUE
    /\ UNCHANGED <<wstAutoReconnect, wstSocket, wstPc, wstRetry, wstDelay>>

\* What disconnect() leaves: Transport.disconnect around _disconnect_impl,
\* which returns at once without an open socket and otherwise cancels the
\* receive task and closes and drops the socket.
AfterDisconnect ==
    IF ~wstConnected
    THEN [connected |-> wstConnected, socket |-> wstSocket, receiving |-> wstReceiving]
    ELSE IF ~IsConnected(wstSocket)
    THEN [connected |-> FALSE, socket |-> wstSocket, receiving |-> wstReceiving]
    ELSE [connected |-> FALSE, socket |-> "none", receiving |-> FALSE]

\* disconnect(). (With an open socket _disconnect_impl takes _reconnect_lock:
\* the call goes through when no reconnection holds it.)
TransportDisconnect ==
    /\ WebSocketOnly
    /\ (wstConnected /\ IsConnected(wstSocket)) => wstPc = "idle"
    /\ wstConnected' = AfterDisconnect.connected
    /\ wstSocket' = AfterDisconnect.socket
    /\ wstReceiving' = AfterDisconnect.receiving
    /\ wstCall' = WstCall("disconnect", 0, "returned")
    /\ UNCHANGED <<wstAutoReconnect, wstPc, wstRetry, wstDelay>>

\* connect_to_server(url): an open socket is disconnected first; then
\* websockets.connect is called once, and its failure is raised as
\* ConnectionError.
ConnectToServer(results) ==
    /\ WebSocketOnly
    /\ (wstConnected /\ IsConnected(wstSocket)) => wstPc = "idle"
    /\ LET before == IF IsConnected(wstSocket)
                     THEN AfterDisconnect
                     ELSE [connected |-> wstConnected, socket |-> wstSocket,
                           receiving |-> wstReceiving]
       IN /\ wstConnected' = before.connected
          /\ wstReceiving' = before.receiving
          /\ IF Head(results) = "ok"
             THEN /\ wstSocket' = "open"
                  /\ wstCall' = WstCall("connect_to_server", 1, "returned")
             ELSE /\ wstSocket' = "none"
                  /\ wstCall' = WstCall("connect_to_server", 1, "ConnectionError")
    /\ UNCHANGED <<wstAutoReconnect, wstPc, wstRetry, wstDelay>>

\* The peer closes the connection. A receive task waiting in recv() gets
\* ConnectionClosed and runs _handle_disconnect: the socket is dropped and,
\* with auto_reconnect, _reconnect takes its lock and sleeps for its first
\* delay. Without such a task the socket is just closed.
PeerCloses ==
    /\ WebSocketOnly
    /\ IsConnected(wstSocket)
    /\ wstPc = "idle"
    /\ wstCall' = WstCall("peer closes", 0, None)
    /\ IF wstReceiving /\ wstConnected
       THEN /\ wstSocket' = "none"
            /\ IF wstAutoReconnect
               THEN /\ wstPc' = "sleeping"
                    /\ wstRetry' = 0
                    /\ wstDelay' = ReconnectDelay(0)
               ELSE UNCHANGED <<wstPc, wstRetry, wstDelay>>
       ELSE /\ wstSocket' = "closed"
            /\ UNCHANGED <<wstPc, wstRetry, wstDelay>>
    /\ UNCHANGED <<wstAutoReconnect, wstConnected, wstReceiving>>

\* _reconnect after its sleep. Without an open socket it calls connect() and
\* returns: connect() does nothing on a transport that is marked connected
\* and, on one that was disconnected meanwhile, waits in _connect_impl for the
\* lock _reconnect itself holds. With an open socket (connect_to_server ran
\* meanwhile) the loop goes round and closes it.
ReconnectWake ==
    /\ WebSocketOnly
    /\ wstPc = "sleeping"
    /\ wstPc' = IF ~IsConnected(wstSocket)
                THEN (IF wstConnected THEN "idle" ELSE "blocked")
                ELSE (IF wstConnected THEN "closing" ELSE "idle")
    /\ wstCall' = WstCall("_reconnect", 0, None)
    /\ UNCHANGED <<wstAutoReconnect, wstConnected, wstSocket, wstReceiving, wstRetry,
                   wstDelay>>

\* The close at the top of the loop ends. When it returns the socket is
\* closed and the next sleep begins; when it raises, retry_count goes up and
\* the loop goes round, and after max_retries failures the transport is
\* marked not connected.
ReconnectClosed(outcome) ==
    /\ WebSocketOnly
    /\ wstPc = "closing"
    /\ wstCall' = WstCall("_reconnect", 0, None)
    /\ IF outcome = "returned"
       THEN /\ wstSocket' = IF wstSocket = "none" THEN "none" ELSE "closed"
            /\ wstPc' = "sleeping"
            /\ wstDelay' = ReconnectDelay(wstRetry)
            /\ UNCHANGED <<wstRetry, wstConnected>>
       ELSE /\ wstRetry' = wstRetry + 1
            /\ UNCHANGED <<wstSocket, wstDelay>>
            /\ IF wstRetry + 1 < ReconnectMaxRetries /\ wstConnected
               THEN /\ wstPc' = IF wstSocket = "none" THEN "sleeping" ELSE "closing"
                    /\ UNCHANGED wstConnected
               ELSE /\ wstPc' = "idle"
                    /\ wstConnected' = IF wstRetry + 1 >= ReconnectMaxRetries
                                       THEN FALSE ELSE wstConnected
    /\ UNCHANGED <<wstAutoReconnect, wstReceiving>>

\* The receive loop tests `while self._connected` and ends.
ReceiveLoopExits ==
    /\ WebSocketOnly
    /\ wstReceiving
    /\ ~wstConnected
    /\ wstPc = "idle"
    /\ wstReceiving' = FALSE
    /\ wstCall' = WstCall("_receive_messages", 0, "returned")
    /\ UNCHANGED <<wstAutoReconnect, wstConnected, wstSocket, wstPc, wstRetry, wstDelay>>

WebSocketNext ==
    \/ TransportConnect
    \/ TransportDisconnect
    \/ \E results \in ConnectOutcomes : ConnectToServer(results)
    \/ PeerCloses
    \/ ReconnectWake
    \/ \E outcome \in ImplOutcomes : ReconnectClosed(outcome)
    \/ ReceiveLoopExits

\* ================================================================== delivery
\* protolink/transport/runtime_transport.py, protolink/agents/base.py

\* The agents of the process, and the two keys of each in the transport's
\* table: card.url and card.name.
AgentObjs == {"ag1", "ag2"}

CardUrl(a) == <<"url", a>>

CardName(a) == <<"name", a>>

AgentKeys == {CardUrl(a) : a \in AgentObjs} \cup {CardName(a) : a \in AgentObjs}

\* An Authorization header is a string, here a sequence of pieces; the piece
\* "Bearer " is the seven characters that verify_request_auth strips.
AuthHeaders ==
    { Absent, Given(<<>>), Given(<<"Basic ", "t1">>), Given(<<"Bearer ">>),
      Given(<<"Bearer ", "t1">>) }

\* auth_header.startswith("Bearer ")
StartsWithBearer(header) == Len(header) >= 1 /\ header[1] = "Bearer "

\* auth_header[7:]
TokenOf(header) == Tail(header)

Skills == {"default", "analyze"}

\* What the provider's authenticate can return: an AuthContext, by principal
\* and by what is_expired() answers.
AuthContexts ==
    { [principal_id |-> "p1", expired |-> FALSE],
      [principal_id |-> "p2", expired |-> FALSE],
      [principal_id |-> "p1", expired |-> TRUE] }

\* The provider is outside the program: authenticate raises or returns a
\* context, authorize returns True or False or raises.
AuthenticateOutcomes ==
    {[raised |-> TRUE]} \cup {[raised |-> FALSE, context |-> c] : c \in AuthContexts}

AuthorizeOutcomes == {"True", "False", "raised"}

\* The answers to tell apart for one call: the provider's answer matters only
\* where verify_request_auth asks for it (authenticate for a Bearer header,
\* authorize for a live context and a skill other than "default").
AuthenticateAnswers(header) ==
    IF header.given /\ StartsWithBearer(header.value)
    THEN AuthenticateOutcomes ELSE {[raised |-> TRUE]}

AuthorizeAnswers(skill, authn) ==
    IF skill # "default" /\ ~authn.raised
    THEN AuthorizeOutcomes ELSE {"True"}

\* A verify_request_auth call: the agent, the arguments, how it ended, the
\* calls it made to the provider in order (each with its argument and what the
\* provider answered) and the context it returned, if any.
NoCall ==
    [agent |-> None, outcome |-> None, header |-> Absent, skill |-> None,
     calls |-> <<>>, returned |-> Absent]

ProviderCall(op, arg, result) == [op |-> op, arg |-> arg, result |-> result]

\* A send_task call: the key it was made with, how it ended ("handled": the
\* handler was invoked), the agent invoked and whether verify_request_auth had
\* succeeded at that agent for the request at hand.
SendTaskCall(key, outcome, agent, verified) ==
    [key |-> key, outcome |-> outcome, agent |-> agent, verified |-> verified]

NoSendTask == SendTaskCall(<<>>, None, None, FALSE)

\* The agent was asked to verify the request at hand, and it passed.
Verified(a) == request.agent = a /\ request.outcome = "ok"

DeliveryInit ==
    /\ rtAgents = <<>>
    /\ authProvider \in [AgentObjs -> BOOLEAN]
    /\ authContext = [a \in AgentObjs |-> Absent]
    /\ request = NoCall
    /\ sendTaskCall = NoSendTask

\* Agents without an auth provider: the single initial state of the delivery
\* component in the specifications of the other components.
DeliveryDefault ==
    /\ DeliveryInit
    /\ authProvider = [a \in AgentObjs |-> FALSE]

\* verify_request_auth that calls authorize without looking at its answer.
VerifyOutcomeIgnoringAuthorize(header, skill, authn, authz) ==
    IF ~header.given \/ header.value = <<>>
    THEN "Authentication required but no credentials provided"
    ELSE IF ~StartsWithBearer(header.value)
    THEN "Invalid authorization header format"
    ELSE IF authn.raised
    THEN "Authentication failed"
    ELSE IF authn.context.expired
    THEN "Token expired"
    ELSE IF skill # "default" /\ authz = "raised"
    THEN "Authorization failed"
    ELSE "ok"

\* How verify_request_auth ends for an agent with a provider: "ok", or the
\* PermissionError it raises. authn and authz are what the provider answers
\* when it is asked.
VerifyOutcome(header, skill, authn, authz) ==
    IF ~header.given \/ header.value = <<>>
    THEN "Authentication required but no credentials provided"
    ELSE IF ~StartsWithBearer(header.value)
    THEN "Invalid authorization header format"
    ELSE IF authn.raised
    THEN "Authentication failed"
    ELSE IF authn.context.expired
    THEN "Token expired"
    ELSE IF skill # "default" /\ authz # "True"
    THEN "Authorization failed"
    ELSE "ok"

\* verify_request_auth that authorizes the skill before it tests the expiry.
ProviderCallsAuthorizeFirst(header, skill, authn, authz) ==
    IF ~header.given \/ header.value = <<>> \/ ~StartsWithBearer(header.value)
    THEN <<>>
    ELSE <<ProviderCall("authenticate", TokenOf(header.value), authn)>>
         \o (IF authn.raised \/ skill = "default"
             THEN <<>>
             ELSE <<ProviderCall("authorize", <<skill>>, authz)>>)

\* The calls verify_request_auth makes to the provider, in order: authenticate
\* with the token once the header has passed the two tests, and authorize with
\* the skill once the context is there and not expired, for a skill other
\* than "default".
ProviderCalls(header, skill, authn, authz) ==
    IF ~header.given \/ header.value = <<>> \/ ~StartsWithBearer(header.value)
    THEN <<>>
    ELSE <<ProviderCall("authenticate", TokenOf(header.value), authn)>>
         \o (IF authn.raised \/ authn.context.expired \/ skill = "default"
             THEN <<>>
             ELSE <<ProviderCall("authorize", <<skill>>, authz)>>)

\* Agent.verify_request_auth, called for the request at hand.
VerifyRequestAuth(a, header, skill, authn, authz) ==
    /\ DeliveryOnly
    /\ LET outcome == IF ~authProvider[a] THEN "no auth required"
                      ELSE VerifyOutcome(header, skill, authn, authz)
           calls == IF ~authProvider[a] THEN <<>>
                    ELSE ProviderCalls(header, skill, authn, authz)
       IN /\ request' = [agent |-> a, outcome |-> outcome, header |-> header,
                         skill |-> skill, calls |-> calls,
                         returned |-> IF outcome = "ok" THEN Given(authn.context)
                                      ELSE Absent]
          /\ authContext' = IF outcome = "ok"
                            THEN [authContext EXCEPT ![a] = Given(authn.context)]
                            ELSE authContext
    /\ UNCHANGED <<rtAgents, authProvider, sendTaskCall>>

\* RuntimeTransport.register_agent: the agent under its url and under its name.
RtRegisterAgent(a) ==
    /\ DeliveryOnly
    /\ rtAgents' = [k \in DOMAIN rtAgents \cup {CardUrl(a), CardName(a)} |->
                      IF k \in {CardUrl(a), CardName(a)} THEN a ELSE rtAgents[k]]
    /\ UNCHANGED <<authProvider, authContext, request, sendTaskCall>>

\* RuntimeTransport.unregister_agent
RtUnregisterAgent(key) ==
    /\ DeliveryOnly
    /\ rtAgents' = IF key \in DOMAIN rtAgents
                   THEN [k \in DOMAIN rtAgents \ {key} |-> rtAgents[k]]
                   ELSE rtAgents
    /\ UNCHANGED <<authProvider, authContext, request, sendTaskCall>>

\* send_task that hands a task for an unknown key to some agent instead of
\* raising.
SendTaskToAnyAgent(key) ==
    /\ DeliveryOnly
    /\ \E a \in AgentObjs :
          sendTaskCall' =
             IF key \notin DOMAIN rtAgents
             THEN SendTaskCall(key, "handled", a, Verified(a))
             ELSE SendTaskCall(key, "handled", rtAgents[key], Verified(rtAgents[key]))
    /\ UNCHANGED <<rtAgents, authProvider, authContext, request>>

\* RuntimeTransport.send_task: an unknown key raises ValueError; otherwise the
\* agent's handle_task is called with the task.
SendTask(key) ==
    /\ DeliveryOnly
    /\ sendTaskCall' =
          IF key \notin DOMAIN rtAgents
          THEN SendTaskCall(key, "ValueError", None, FALSE)
          ELSE SendTaskCall(key, "handled", rtAgents[key], Verified(rtAgents[key]))
    /\ UNCHANGED <<rtAgents, authProvider, authContext, request>>

\* The next incoming request: nothing has been verified for it yet.
NextRequest ==
    /\ DeliveryOnly
    /\ request.agent # None
    /\ request' = NoCall
    /\ UNCHANGED <<rtAgents, authProvider, authContext, sendTaskCall>>

\* verify_request_auth alone, with every header, skill and provider answer.
AuthNext ==
    \/ \E a \in AgentObjs : \E header \in AuthHeaders : \E skill \in Skills :
       \E authn \in AuthenticateAnswers(header) :
       \E authz \in AuthorizeAnswers(skill, authn) :
          VerifyRequestAuth(a, header, skill, authn, authz)
    \/ NextRequest

\* The headers the delivery is checked with: none, and a Bearer token.
DeliveryHeaders == {Absent, Given(<<"Bearer ", "t1">>)}

\* The transport's table and send_task, with requests that were verified for
\* the default skill, or not at all.
DeliveryNext ==
    \/ \E a \in AgentObjs : \E header \in DeliveryHeaders :
       \E authn \in AuthenticateAnswers(header) :
          VerifyRequestAuth(a, header, "default", authn, "True")
    \/ \E a \in AgentObjs : RtRegisterAgent(a)
    \/ \E key \in AgentKeys : RtUnregisterAgent(key)
    \/ \E key \in AgentKeys : SendTask(key)
    \/ NextRequest

\* ================================================================== streaming
\* protolink/agents/base.py (Agent.handle_task_streaming),
\* examples/streaming_agent.py, Transport.subscribe_task

\* The events, by what the subscriber tells apart: the type tag, the new state
\* of a status update, the ordinal of a progress or artifact event, `final`
\* and `recoverable`.
TaskStatusUpdateEvent(new_state, final) ==
    [type |-> "task_status_update", detail |-> new_state, final |-> final,
     recoverable |-> TRUE]

TaskProgressEvent(step) ==
    [type |-> "task_progress", detail |-> step, final |-> FALSE, recoverable |-> TRUE]

TaskArtifactUpdateEvent(n) ==
    [type |-> "task_artifact_update", detail |-> n, final |-> FALSE, recoverable |-> TRUE]

TaskErrorEvent(recoverable) ==
    [type |-> "task_error", detail |-> "task_failed", final |-> FALSE,
     recoverable |-> recoverable]

\* The generator returned: StopAsyncIteration.
StopAsyncIteration ==
    [type |-> "StopAsyncIteration", detail |-> None, final |-> FALSE, recoverable |-> TRUE]

\* The event ends the sequence: a status update with final=True or an error
\* that is not recoverable.
IsTerminalEvent(e) ==
    \/ e.type = "task_status_update" /\ e.final
    \/ e.type = "task_error" /\ ~e.recoverable

\* What the agent's handle_task does with the task: it raises, or returns the
\* task with some artifacts.
HandleTaskOutcomes ==
    {[raises |-> TRUE, artifacts |-> 0]}
        \cup {[raises |-> FALSE, artifacts |-> k] : k \in 0..MaxArtifacts}

\* Agent.handle_task_streaming without the working status at its start.
HandleTaskStreamingNoWorking(h, i) ==
    IF h.raises THEN (IF i = 1 THEN TaskErrorEvent(FALSE) ELSE StopAsyncIteration)
    ELSE IF i <= h.artifacts THEN TaskArtifactUpdateEvent(i)
    ELSE IF i = h.artifacts + 1 THEN TaskStatusUpdateEvent("completed", TRUE)
    ELSE StopAsyncIteration

\* Agent.handle_task_streaming without final=True on its completion event.
HandleTaskStreamingNoFinal(h, i) ==
    IF i = 1 THEN TaskStatusUpdateEvent("working", FALSE)
    ELSE IF h.raises THEN (IF i = 2 THEN TaskErrorEvent(FALSE) ELSE StopAsyncIteration)
    ELSE IF i <= h.artifacts + 1 THEN TaskArtifactUpdateEvent(i - 1)
    ELSE IF i = h.artifacts + 2 THEN TaskStatusUpdateEvent("completed", FALSE)
    ELSE StopAsyncIteration

\* Agent.handle_task_streaming, the default implementation: what its i-th
\* resumption yields. The first yields the working status; the second calls
\* handle_task, and from then on come the artifacts of the returned task and
\* the completion event, or the error event of `except Exception`.
HandleTaskStreaming(h, i) ==
    IF i = 1 THEN TaskStatusUpdateEvent("working", FALSE)
    ELSE IF h.raises THEN (IF i = 2 THEN TaskErrorEvent(FALSE) ELSE StopAsyncIteration)
    ELSE IF i <= h.artifacts + 1 THEN TaskArtifactUpdateEvent(i - 1)
    ELSE IF i = h.artifacts + 2 THEN TaskStatusUpdateEvent("completed", TRUE)
    ELSE StopAsyncIteration

\* A streaming handler of the example's shape that only reports progress:
\* `steps` progress events, then the completion event.
ProgressHandler(steps, i) ==
    IF i <= steps THEN TaskProgressEvent(i)
    ELSE IF i = steps + 1 THEN TaskStatusUpdateEvent("completed", TRUE)
    ELSE StopAsyncIteration

\* StreamingAnalysisAgent.handle_task_streaming: the start event, one progress
\* event per step of range(1, 5), the artifact, the completion event.
ExampleHandler(i) ==
    IF i = 1 THEN TaskStatusUpdateEvent("working", FALSE)
    ELSE IF i <= ExampleSteps + 1 THEN TaskProgressEvent(i - 1)
    ELSE IF i = ExampleSteps + 2 THEN TaskArtifactUpdateEvent(1)
    ELSE ProgressHandler(0, i - (ExampleSteps + 2))

NoHandleTask == [raises |-> FALSE, artifacts |-> 0]

\* The generators a subscription can run.
Generators ==
    {[kind |-> "default", handler |-> h, steps |-> 0] : h \in HandleTaskOutcomes}
        \cup {[kind |-> "example", handler |-> NoHandleTask, steps |-> ExampleSteps]}
        \cup {[kind |-> "progress", handler |-> NoHandleTask, steps |-> n] :
                  n \in 0..MaxProgress}

NoGenerator == [kind |-> None, handler |-> NoHandleTask, steps |-> 0]

\* __anext__: what the i-th resumption of the generator gives.
Anext(gen, i) ==
    CASE gen.kind = "default" -> HandleTaskStreaming(gen.handler, i)
      [] gen.kind = "example" -> ExampleHandler(i)
      [] OTHER -> ProgressHandler(gen.steps, i)

StreamInit ==
    /\ strGen = NoGenerator
    /\ strGenState = "none"
    /\ strResumes = 0
    /\ strDelivered = <<>>
    /\ strState = "none"
    /\ strSubs = 0

\* subscribe_task(agent_url, task): a new call makes a new generator; nothing
\* of it runs before the subscriber asks for the first event.
SubscribeTask(gen) ==
    /\ StreamOnly
    /\ strState # "open"
    /\ strSubs < MaxSubscriptions
    /\ strSubs' = strSubs + 1
    /\ strGen' = gen
    /\ strGenState' = "created"
    /\ strResumes' = 0
    /\ strDelivered' = <<>>
    /\ strState' = "open"

\* A subscriber that pulls from a subscription it has cancelled.
PullAfterCancel == strState \in {"open", "cancelled"} /\ strGenState # "closed"

\* The subscriber can ask for the next event.
PullAllowed == strState = "open"

\* A subscription that tests for the end of the sequence before it hands the
\* event on: the terminal event is not delivered.
PullStoppingBeforeTerminal ==
    /\ StreamOnly
    /\ PullAllowed
    /\ LET e == Anext(strGen, strResumes + 1)
       IN /\ strResumes' = strResumes + 1
          /\ IF e = StopAsyncIteration \/ IsTerminalEvent(e)
             THEN /\ strGenState' = "finished"
                  /\ strState' = "ended"
                  /\ UNCHANGED strDelivered
             ELSE /\ strGenState' = "suspended"
                  /\ strDelivered' = Append(strDelivered, e)
                  /\ strState' = "open"
    /\ UNCHANGED <<strGen, strSubs>>

\* One step of the subscriber's `async for`: the generator is resumed and runs
\* to its next yield, or returns; an event is delivered, and a terminal event
\* ends the sequence.
Pull ==
    /\ StreamOnly
    /\ PullAllowed
    /\ LET e == Anext(strGen, strResumes + 1)
       IN /\ strResumes' = strResumes + 1
          /\ IF e = StopAsyncIteration
             THEN /\ strGenState' = "finished"
                  /\ strState' = "ended"
                  /\ UNCHANGED strDelivered
             ELSE /\ strGenState' = "suspended"
                  /\ strDelivered' = Append(strDelivered, e)
                  /\ strState' = IF IsTerminalEvent(e) THEN "ended" ELSE "open"
    /\ UNCHANGED <<strGen, strSubs>>

\* The subscriber leaves its `async for` (break, or its task is cancelled).
CancelSubscription ==
    /\ StreamOnly
    /\ strState = "open"
    /\ strState' = "cancelled"
    /\ UNCHANGED <<strGen, strGenState, strResumes, strDelivered, strSubs>>

\* The generator of a subscription that is over is closed: GeneratorExit is
\* raised at the yield it is suspended at. No handler catches it (`except
\* Exception` does not), so the generator ends there without running on.
CloseGenerator ==
    /\ StreamOnly
    /\ strState \in {"ended", "cancelled"}
    /\ strGenState \in {"created", "suspended"}
    /\ strGenState' = "closed"
    /\ UNCHANGED <<strGen, strResumes, strDelivered, strState, strSubs>>

StreamNext ==
    \/ \E gen \in Generators : SubscribeTask(gen)
    \/ Pull
    \/ CancelSubscription
    \/ CloseGenerator

\* ================================================================== transports
\* protolink/transport/http_transport.py, protolink/transport/backends/fastapi.py,
\* protolink/transport/runtime_transport.py (send_message)

Handlers == {"h1", "h2"}

Timeouts == 1..MaxTimeout

\* The longest wait the model follows.
MaxWait == MaxTimeout + 1

\* MessageType: the three that send_message awaits a response for, and one
\* that it sends and forgets.
MessageTypes == {"TASK_REQUEST", "DISCOVER", "REGISTER", "PING"}

\* The messages of the task a handler returns, by who produced each: the
\* request is the message the task was created with, a reply is the
\* handler's. A handler may return a task without messages.
HandlerResults == {<<>>, <<"request">>, <<"request", "reply">>}

\* What the remote end answers to the POST of send_task: a Task, or a status
\* that raise_for_status raises for.
HttpResponses == {"ok", "HTTPStatusError"}

\* A send_message call: the transport, the key it was made with, the messages
\* of the task the handler returned (if the handler was reached), how the call
\* ended and the message it returned.
SendMessageCall(transport, key, result, outcome, returned) ==
    [transport |-> transport, key |-> key, result |-> result,
     outcome |-> outcome, returned |-> returned]

NoSendMessage == SendMessageCall(None, <<>>, Absent, None, None)

\* A start, a stop or a delivered task: how it ended, and the handler invoked.
HttpCall(op, outcome, handler) == [op |-> op, outcome |-> outcome, handler |-> handler]

TransportIdle(timeout) ==
    /\ requestTimeout = timeout
    /\ protoConnected = FALSE
    /\ protoPending = FALSE
    /\ callPc = "idle"
    /\ callKind = None
    /\ callElapsed = 0
    /\ callOutcome = None
    /\ httpHandler = None
    /\ httpBindings = <<>>
    /\ httpRoutes = 0
    /\ httpListeners = 0
    /\ httpServerTask = FALSE
    /\ httpClients = 0
    /\ httpClient = FALSE
    /\ httpRequest = None
    /\ httpCall = HttpCall(None, None, None)
    /\ sendMessageCall = NoSendMessage

\* The defaults: request_timeout = 30, timeout = 30.0.
TransportInit == TransportIdle(DefaultRequestTimeout)

\* Any timeout the caller may have configured.
CallInit == \E timeout \in Timeouts : TransportIdle(timeout)

callVars == <<requestTimeout, protoConnected, protoPending, callPc, callKind,
              callElapsed, callOutcome>>

lifeVars == <<httpHandler, httpBindings, httpRoutes, httpListeners, httpServerTask,
              httpClients, httpClient, httpRequest, httpCall>>

\* result_task.messages[-1]
LastMessage(messages) == messages[Len(messages)]

\* RuntimeTransport.send_message: the task goes through send_task; the last
\* message of the result is returned, and Message.agent("No response") when
\* the result has none.
RtSendMessage(key, result) ==
    /\ TransportOnly
    /\ sendMessageCall' =
          IF key \notin DOMAIN rtAgents
          THEN SendMessageCall("runtime", key, Absent, "ValueError", None)
          ELSE IF result # <<>>
          THEN SendMessageCall("runtime", key, Given(result), "returned",
                               LastMessage(result))
          ELSE SendMessageCall("runtime", key, Given(result), "returned",
                               "No response")
    /\ UNCHANGED <<dlvVars, lifeVars, callVars>>

\* HTTPTransport._ensure_client: a client is made when the transport holds none.
EnsureClient ==
    /\ httpClients' = IF httpClient THEN httpClients ELSE httpClients + 1
    /\ httpClient' = TRUE

\* HTTPTransport.send_message: the task goes through send_task (the POST, then
\* raise_for_status); the last message of the result is returned, and
\* RuntimeError is raised when the result has none.
HttpSendMessage(response, result) ==
    /\ TransportOnly
    /\ EnsureClient
    /\ sendMessageCall' =
          IF response # "ok"
          THEN SendMessageCall("http", <<>>, Absent, response, None)
          ELSE IF result # <<>>
          THEN SendMessageCall("http", <<>>, Given(result), "returned",
                               LastMessage(result))
          ELSE SendMessageCall("http", <<>>, Given(result), "RuntimeError", None)
    /\ UNCHANGED <<dlvVars, callVars, httpHandler, httpBindings, httpRoutes,
                   httpListeners, httpServerTask, httpRequest, httpCall>>

\* ------------------------------------------------------------------ server lifecycle
\* protolink/transport/http_transport.py, protolink/transport/backends/fastapi.py

\* on_task_received that keeps the handler bound first.
OnTaskReceivedFirstWins(h) ==
    /\ TransportOnly
    /\ Len(httpBindings) < MaxBindings
    /\ httpHandler' = IF httpHandler = None THEN h ELSE httpHandler
    /\ httpBindings' = Append(httpBindings, [handler |-> h, listening |-> httpListeners > 0])
    /\ UNCHANGED <<dlvVars, callVars, sendMessageCall, httpRoutes, httpListeners,
                   httpServerTask, httpClients, httpClient, httpRequest, httpCall>>

\* HTTPTransport.on_task_received: self._task_handler = handler.
OnTaskReceived(h) ==
    /\ TransportOnly
    /\ Len(httpBindings) < MaxBindings
    /\ httpHandler' = h
    /\ httpBindings' = Append(httpBindings, [handler |-> h, listening |-> httpListeners > 0])
    /\ UNCHANGED <<dlvVars, callVars, sendMessageCall, httpRoutes, httpListeners,
                   httpServerTask, httpClients, httpClient, httpRequest, httpCall>>

\* start that does not look for a handler.
HttpStartUnchecked ==
    /\ TransportOnly
    /\ httpRoutes < MaxStarts
    /\ httpRoutes' = httpRoutes + 1
    /\ httpListeners' = httpListeners + 1
    /\ httpServerTask' = TRUE
    /\ httpClients' = httpClients + 1
    /\ httpClient' = TRUE
    /\ httpCall' = HttpCall("start", "ok", None)
    /\ UNCHANGED <<dlvVars, callVars, sendMessageCall, httpHandler, httpBindings,
                   httpRequest>>

\* HTTPTransport.start: RuntimeError without a handler; otherwise
\* backend.setup_routes registers the "/tasks/" route on the app,
\* backend.start makes a server and the task that serves it, and a new client
\* is put in _client.
HttpStart ==
    /\ TransportOnly
    /\ IF httpHandler = None
       THEN /\ httpCall' = HttpCall("start", "RuntimeError", None)
            /\ UNCHANGED <<httpRoutes, httpListeners, httpServerTask, httpClients,
                           httpClient>>
       ELSE /\ httpRoutes < MaxStarts
            /\ httpRoutes' = httpRoutes + 1
            /\ httpListeners' = httpListeners + 1
            /\ httpServerTask' = TRUE
            /\ httpClients' = httpClients + 1
            /\ httpClient' = TRUE
            /\ httpCall' = HttpCall("start", "ok", None)
    /\ UNCHANGED <<dlvVars, callVars, sendMessageCall, httpHandler, httpBindings,
                   httpRequest>>

\* HTTPTransport.stop: backend.stop ends the server task the backend holds,
\* if it holds one, and forgets it; the client the transport holds, if it
\* holds one, is closed and forgotten.
HttpStop ==
    /\ TransportOnly
    /\ httpListeners' = IF httpServerTask THEN httpListeners - 1 ELSE httpListeners
    /\ httpServerTask' = FALSE
    /\ httpClients' = IF httpClient THEN httpClients - 1 ELSE httpClients
    /\ httpClient' = FALSE
    /\ httpCall' = HttpCall("stop", "ok", None)
    /\ UNCHANGED <<dlvVars, callVars, sendMessageCall, httpHandler, httpBindings,
                   httpRoutes, httpRequest>>

\* transport._task_handler, looked up when the route calls it.
RouteHandler == httpHandler

\* The "/tasks/" route up to its await of the request body: a listener
\* accepted the request; RuntimeError when no handler is bound.
HttpReceive ==
    /\ TransportOnly
    /\ httpListeners > 0 /\ httpRoutes > 0
    /\ httpRequest = None
    /\ IF httpHandler = None
       THEN /\ httpCall' = HttpCall("deliver", "RuntimeError", None)
            /\ UNCHANGED httpRequest
       ELSE /\ httpRequest' = "parsed"
            /\ UNCHANGED httpCall
    /\ UNCHANGED <<dlvVars, callVars, sendMessageCall, httpHandler, httpBindings,
                   httpRoutes, httpListeners, httpServerTask, httpClients, httpClient>>

\* The rest of the route: the task is given to the handler bound by now.
HttpHandle ==
    /\ TransportOnly
    /\ httpRequest = "parsed"
    /\ httpRequest' = None
    /\ httpCall' = HttpCall("deliver", "handled", RouteHandler)
    /\ UNCHANGED <<dlvVars, callVars, sendMessageCall, httpHandler, httpBindings,
                   httpRoutes, httpListeners, httpServerTask, httpClients, httpClient>>

HttpNext ==
    \/ \E h \in Handlers : OnTaskReceived(h)
    \/ HttpStart
    \/ HttpStop
    \/ HttpReceive
    \/ HttpHandle
    \/ \E response \in HttpResponses : \E result \in HandlerResults :
          HttpSendMessage(response, result)

\* ------------------------------------------------------------------ calls that wait
\* protolink/core/protocol.py (Protocol.send_message),
\* protolink/transport/http_transport.py (HTTPTransport.send_task)

\* A wait that never times out.
TimerNever(elapsed, timeout) == FALSE

\* asyncio.wait_for(future, timeout=...) and httpx's timeout: the wait is over
\* once the caller has waited for the timeout.
TimerDue(elapsed, timeout) == elapsed >= timeout

\* Protocol.start, on a protocol that is not connected (a connected one
\* returns at once).
ProtoStart ==
    /\ TransportOnly
    /\ ~protoConnected
    /\ callPc = "idle"
    /\ protoConnected' = TRUE
    /\ UNCHANGED <<dlvVars, lifeVars, sendMessageCall, requestTimeout, protoPending,
                   callPc, callKind, callElapsed, callOutcome>>

\* Protocol.stop, on a connected protocol: the futures of the pending requests
\* are cancelled, which ends a send_message that waits on one.
ProtoStop ==
    /\ TransportOnly
    /\ protoConnected
    /\ protoConnected' = FALSE
    /\ protoPending' = FALSE
    /\ IF callPc = "waiting" /\ callKind = "protocol"
       THEN callPc' = "idle" /\ callOutcome' = "CancelledError"
       ELSE UNCHANGED <<callPc, callOutcome>>
    /\ UNCHANGED <<dlvVars, lifeVars, sendMessageCall, requestTimeout, callKind,
                   callElapsed>>

\* Protocol.send_message up to its wait: ProtocolError when not connected; a
\* TASK_REQUEST gets its simulated response at once; DISCOVER and REGISTER
\* wait on the future; any other type is sent and forgotten.
ProtoSendMessage(type) ==
    /\ TransportOnly
    /\ callPc = "idle"
    /\ callKind' = "protocol"
    /\ callElapsed' = 0
    /\ IF ~protoConnected
       THEN /\ callOutcome' = "ProtocolError: not connected"
            /\ UNCHANGED <<callPc, protoPending>>
       ELSE IF type = "TASK_REQUEST"
       THEN /\ callOutcome' = "response"
            /\ UNCHANGED <<callPc, protoPending>>
       ELSE IF type \in {"DISCOVER", "REGISTER"}
       THEN /\ callPc' = "waiting"
            /\ protoPending' = TRUE
            /\ callOutcome' = None
       ELSE /\ callOutcome' = "None returned"
            /\ UNCHANGED <<callPc, protoPending>>
    /\ UNCHANGED <<dlvVars, lifeVars, sendMessageCall, requestTimeout, protoConnected>>

\* Protocol.process_incoming_message with the TASK_RESPONSE of the pending
\* request: the future gets its result and send_message returns it.
ProtoIncomingResponse ==
    /\ TransportOnly
    /\ callPc = "waiting" /\ callKind = "protocol" /\ protoPending
    /\ protoPending' = FALSE
    /\ callPc' = "idle"
    /\ callOutcome' = "response"
    /\ UNCHANGED <<dlvVars, lifeVars, sendMessageCall, requestTimeout, protoConnected,
                   callKind, callElapsed>>

\* HTTPTransport.send_task up to its wait: the client, then the POST.
HttpSendTask ==
    /\ TransportOnly
    /\ callPc = "idle"
    /\ EnsureClient
    /\ callPc' = "waiting"
    /\ callKind' = "http"
    /\ callElapsed' = 0
    /\ callOutcome' = None
    /\ UNCHANGED <<dlvVars, sendMessageCall, requestTimeout, protoConnected,
                   protoPending, httpHandler, httpBindings, httpRoutes, httpListeners,
                   httpServerTask, httpRequest, httpCall>>

\* The response to the POST arrives: the Task of the body, or the error that
\* raise_for_status raises.
HttpResponse(response) ==
    /\ TransportOnly
    /\ callPc = "waiting" /\ callKind = "http"
    /\ callPc' = "idle"
    /\ callOutcome' = response
    /\ UNCHANGED <<dlvVars, lifeVars, sendMessageCall, requestTimeout, protoConnected,
                   protoPending, callKind, callElapsed>>

\* Time passes for a caller that waits.
CallTick ==
    /\ TransportOnly
    /\ callPc = "waiting"
    /\ ~TimerDue(callElapsed, requestTimeout)
    /\ callElapsed < MaxWait
    /\ callElapsed' = callElapsed + 1
    /\ UNCHANGED <<dlvVars, lifeVars, sendMessageCall, requestTimeout, protoConnected,
                   protoPending, callPc, callKind, callOutcome>>

\* A timeout after which send_message raises without its finally clause.
CallTimeoutKeepsPending ==
    /\ TransportOnly
    /\ callPc = "waiting"
    /\ TimerDue(callElapsed, requestTimeout)
    /\ callPc' = "idle"
    /\ callOutcome' = IF callKind = "protocol" THEN "ProtocolError: timed out"
                      ELSE "TimeoutException"
    /\ UNCHANGED <<dlvVars, lifeVars, sendMessageCall, requestTimeout, protoConnected,
                   protoPending, callKind, callElapsed>>

\* The timeout of the wait: wait_for cancels the future and send_message
\* raises ProtocolError (its finally drops the pending request); httpx raises
\* its timeout error out of send_task.
CallTimeout ==
    /\ TransportOnly
    /\ callPc = "waiting"
    /\ TimerDue(callElapsed, requestTimeout)
    /\ callPc' = "idle"
    /\ protoPending' = FALSE
    /\ callOutcome' = IF callKind = "protocol" THEN "ProtocolError: timed out"
                      ELSE "TimeoutException"
    /\ UNCHANGED <<dlvVars, lifeVars, sendMessageCall, requestTimeout, protoConnected,
                   callKind, callElapsed>>

CallNext ==
    \/ ProtoStart
    \/ ProtoStop
    \/ \E type \in MessageTypes : ProtoSendMessage(type)
    \/ ProtoIncomingResponse
    \/ HttpSendTask
    \/ \E response \in HttpResponses : HttpResponse(response)
    \/ CallTick
    \/ CallTimeout

\* The in-process transport's table and its send_message.
MessageNext ==
    \/ \E a \in AgentObjs : RtRegisterAgent(a)
    \/ \E key \in AgentKeys : RtUnregisterAgent(key)
    \/ \E key \in AgentKeys : \E result \in HandlerResults : RtSendMessage(key, result)

\* ================================================================== specifications

vars == <<taskVars, sendVars, regVars, dlvVars, strVars, trVars, restVars>>

\* HTTPTransport(config): any attempt limit and base delay; the session is the
\* one _connect_impl builds (raise_for_status=True) or one put in its place.
SendInit ==
    \E attempts \in 0..MaxAttempts : \E delay \in BaseDelays : \E rfs \in BOOLEAN :
        SendIdle(attempts, delay, rfs)

\* TransportConfig's defaults: reconnect_attempts = 3, reconnect_delay = 1.0.
SendDefault == SendIdle(DefaultAttempts, 1, TRUE)

Init == TaskInit /\ SendInit /\ RegistryInit /\ DeliveryInit /\ StreamInit /\ TransportInit /\ RestInit

InitTask == TaskInit /\ SendDefault /\ RegistryInit /\ DeliveryDefault /\ StreamInit /\ TransportInit /\ RestInit

InitSend == TaskInit /\ SendInit /\ RegistryInit /\ DeliveryDefault /\ StreamInit /\ TransportInit /\ RestInit

InitRegistry == TaskInit /\ SendDefault /\ RegistryInit /\ DeliveryDefault /\ StreamInit /\ TransportInit /\ RestInit

InitDelivery == TaskInit /\ SendDefault /\ RegistryInit /\ DeliveryInit /\ StreamInit /\ TransportInit /\ RestInit

InitStream == TaskInit /\ SendDefault /\ RegistryInit /\ DeliveryDefault /\ StreamInit /\ TransportInit /\ RestInit

InitTransport ==
    TaskInit /\ SendDefault /\ RegistryInit /\ DeliveryDefault /\ StreamInit /\ TransportInit
    /\ RestInit

InitContext ==
    TaskInit /\ SendDefault /\ RegistryInit /\ DeliveryDefault /\ StreamInit /\ TransportInit
    /\ RestInit

SpecTask == InitTask /\ [][TaskNext]_vars

SpecSend == InitSend /\ [][SendNext]_vars

SpecRegistry == InitRegistry /\ [][RegistryNext]_vars

SpecSweep == InitRegistry /\ [][SweepNext]_vars

\* _cleanup_loop runs for as long as the registry does: it wakes up after
\* every sleep, and an awaited close returns or raises.
SpecSweepFair == SpecSweep /\ WF_vars(SweepStart) /\ WF_vars(SweepResume)

InitWebSocket ==
    TaskInit /\ SendDefault /\ RegistryInit /\ DeliveryDefault /\ StreamInit /\ TransportInit
    /\ ContextInit /\ ConnectInit /\ WebSocketInit

SpecWebSocket == InitWebSocket /\ [][WebSocketNext]_vars

SpecConnect == InitContext /\ [][ConnectNext]_vars

SpecContext == InitContext /\ [][ContextNext]_vars

SpecDelivery == InitDelivery /\ [][DeliveryNext]_vars

SpecAuth == InitDelivery /\ [][AuthNext]_vars

SpecStream == InitStream /\ [][StreamNext]_vars

SpecMessage == InitTransport /\ [][MessageNext]_vars

SpecHttp == InitTransport /\ [][HttpNext]_vars

InitCall == TaskInit /\ SendDefault /\ RegistryInit /\ DeliveryDefault /\ StreamInit /\ CallInit /\ RestInit

SpecCall == InitCall /\ [][CallNext]_vars

\* Time passes while a caller waits, and the event loop runs a timeout that
\* is due.
SpecCallFair == SpecCall /\ WF_vars(CallTick) /\ WF_vars(CallTimeout)

\* The subscriber keeps pulling until the sequence ends or it cancels, and the
\* event loop closes the generator of a subscription that is over.
SpecStreamFair == SpecStream /\ WF_vars(Pull) /\ WF_vars(CloseGenerator)

\* The event loop runs a started send to its end: a post completes or times
\* out, a sleep ends.
SpecSendFair == SpecSend /\ WF_vars(SendNext)

Spec == Init /\ [][TaskNext \/ SendNext \/ RegistryNext \/ DeliveryNext \/ AuthNext
                     \/ StreamNext \/ MessageNext \/ HttpNext \/ CallNext
                     \/ ContextNext \/ ConnectNext \/ WebSocketNext]_vars

\* ------------------------------------------------------------------ claims

\* C1: once a task is in a terminal status (completed, failed, cancelled),
\* every start, complete, fail or cancel call on it raises an error and leaves
\* the task as it was; its status never changes again.
C1_TerminalIsFinal ==
    [][\A t \in TaskIds :
          taskStatus[t] \in TerminalStatus =>
              /\ taskStatus'[t] = taskStatus[t]
              /\ taskStartedAt'[t] = taskStartedAt[t]
              /\ taskCompletedAt'[t] = taskCompletedAt[t]
              /\ taskResult'[t] = taskResult[t]
              /\ (taskCall'.task = t => taskCall'.outcome = "ValueError")]_vars

\* A helper was called on a task in a terminal status and was rejected.
C1_Witness ==
    /\ taskCall.op \in {"start", "complete", "fail", "cancel"}
    /\ taskCall.before \in TerminalStatus
    /\ taskCall.outcome = "ValueError"
    /\ taskStatus[taskCall.task] = taskCall.before

\* C2: complete() succeeds on a pending (submitted) task as well as on a
\* running (working) one, and leaves the task completed.
C2_CompleteFromSubmittedOrWorking ==
    (taskCall.op = "complete" /\ taskCall.before \in {PENDING, RUNNING}) =>
        (taskCall.outcome = "ok" /\ taskStatus[taskCall.task] = COMPLETED)

\* The send is over: it returned a response or raised.
SendDone == sendPc \in {"returned", "raised"}

\* The posts made so far all failed, each with a transient failure.
AllTransient == \A i \in 1..Len(outcomes) : outcomes[i] \in Transient

\* The posts made so far all failed.
AllFailed == \A i \in 1..Len(outcomes) : outcomes[i] # Ok

\* C4: a post answered with a 4xx status is the last post of its send: the
\* transport does not try again after it.
C4_NoRetryAfter4xx ==
    \A i \in 1..Len(outcomes) : outcomes[i] = "status4xx" => i = Len(outcomes)

\* C5: after k transient failures with k below the attempt limit the send is
\* still trying, and when the next post succeeds the send returns the response
\* after exactly k + 1 posts.
C5_SuccessAfterTransientFailures ==
    /\ (sendPc \in {"post", "sleep", "raised"} /\ posts > 0 /\ AllTransient
            /\ Len(outcomes) < reconnectAttempts)
         => sendPc \in {"post", "sleep"}
    /\ (sendPc = "returned"
            /\ \A i \in 1..(Len(outcomes) - 1) : outcomes[i] \in Transient)
         => /\ outcomes[Len(outcomes)] = Ok
            /\ posts = Len(outcomes)
            /\ posts <= reconnectAttempts
            /\ sendResult = "response"
            /\ sendError = None

\* The limit is 3, two transient failures were followed by a success, and the
\* send returned.
C5_Witness ==
    /\ reconnectAttempts = 3
    /\ sendPc = "returned"
    /\ Len(outcomes) = 3
    /\ outcomes[1] \in Transient /\ outcomes[2] \in Transient /\ outcomes[3] = Ok

\* C6 (safety part): a send whose posts all fail makes exactly as many posts as
\* the attempt limit and then raises MessageDeliveryError built from the error
\* of the last post (with a limit of 0: from no error at all).
C6_RaisedAfterLimit ==
    /\ (sendPc = "raised" /\ sendError.type = "MessageDeliveryError")
         => /\ posts = reconnectAttempts
            /\ AllFailed
            /\ sendError = IF reconnectAttempts = 0 THEN NoAttemptError
                           ELSE DeliveryError(outcomes[posts], posts)
    /\ (posts = reconnectAttempts /\ posts > 0 /\ AllFailed) => sendPc = "raised"
    /\ posts <= reconnectAttempts

\* C6: the safety part always holds, and every send ends.
C6_ExhaustedRetriesRaise == []C6_RaisedAfterLimit /\ <>SendDone

\* Every post of a send with a limit of at least 2 failed, and the send raised.
C6_Witness ==
    /\ reconnectAttempts >= 2
    /\ sendPc = "raised"
    /\ posts = reconnectAttempts
    /\ AllFailed

C8_DiscoverSkipsStale ==
    \A f \in DiscoverFilters :
        LET found == FindAgents(f[1], f[2])
        IN \A i \in 1..Len(found) : ~IsStale(agents[found[i]], now)

\* A discovery without filters has just left out a stale agent that no sweep
\* has removed, and returned a live one.
C8_Witness ==
    /\ regCall.method = "discover_agents"
    /\ discovered = FindAgents(Absent, Absent)
    /\ discovered # <<>>
    /\ \E id \in DOMAIN agents :
          /\ IsStale(agents[id], now)
          /\ \A i \in 1..Len(discovered) : discovered[i] # id

\* The map of the registry as register and heartbeat write it.
RegistryMap == [id \in DOMAIN agents |-> <<agents[id].info, agents[id].last_seen>>]

\* C9: between the sweep's decision that an entry is stale and its removal of
\* that entry (the sweep is at its await), no step of another operation
\* changes the map.
C9_SweepExcludesMutations ==
    [][(sweepPc = "closing" /\ sweepPc' = sweepPc /\ sweepIdx' = sweepIdx
            /\ sweepStale' = sweepStale)
         => RegistryMap' = RegistryMap]_vars

\* C10: an entry that leaves the map is stale at the moment it is removed.
C10_OnlyStaleRemoved ==
    [][\A id \in DOMAIN agents :
          id \notin DOMAIN agents' => IsStale(agents[id], now)]_vars

\* C3: the task handler of an agent with an auth provider is invoked only for
\* a request for which verify_request_auth has run at that agent and succeeded.
C3_HandlerOnlyAfterAuth ==
    (sendTaskCall.outcome = "handled" /\ authProvider[sendTaskCall.agent])
        => sendTaskCall.verified

\* The ids an unfiltered discovery returns in the current state.
Discoverable == {FindAgents(Absent, Absent)[i] : i \in 1..Len(FindAgents(Absent, Absent))}

\* C11: an entry whose last register or heartbeat (its last_seen) lies within
\* the timeout is returned by an unfiltered discovery: every such entry of the
\* map is discoverable, the one just registered or refreshed included, and an
\* entry stays in the map from one step to the next until its timeout expires.
C11_LiveEntryDiscovered ==
    [][/\ \A id \in DOMAIN agents' :
             ~IsStale(agents'[id], now') => id \in Discoverable'
       /\ \A id \in DOMAIN agents :
             ~IsStale(agents[id], now') => id \in Discoverable']_vars

\* The subscriber's sequence has no event after a terminal one, and a sequence
\* that has ended has a terminal event as its last.
EndsAtTerminalEvent ==
    /\ \A i \in 1..(Len(strDelivered) - 1) : ~IsTerminalEvent(strDelivered[i])
    /\ strState = "ended" =>
          /\ strDelivered # <<>>
          /\ IsTerminalEvent(strDelivered[Len(strDelivered)])

C15_StartOnlyFromSubmitted ==
    [][\A t \in TaskIds :
          Start(t) =>
              IF taskStatus[t] = PENDING
              THEN /\ taskStatus'[t] = RUNNING
                   /\ taskCall'.outcome = "ok"
              ELSE /\ taskCall'.outcome = "ValueError"
                   /\ taskStatus' = taskStatus
                   /\ taskStartedAt' = taskStartedAt
                   /\ taskCompletedAt' = taskCompletedAt
                   /\ taskResult' = taskResult]_vars

\* start() was called on a running task, was rejected and left it running.
C15_Witness ==
    /\ taskCall.op = "start"
    /\ taskCall.before = RUNNING
    /\ taskCall.outcome = "ValueError"
    /\ taskStatus[taskCall.task] = RUNNING

\* C16: on a pending (submitted) or running (working) task, fail(reason) is
\* accepted and leaves the task failed, and cancel() is accepted and leaves it
\* cancelled.
C16_FailAndCancelFromNonTerminal ==
    [][\A t \in TaskIds :
          taskStatus[t] \in {PENDING, RUNNING} =>
              /\ \A error \in {"message", "exception"} :
                    Fail(t, error) => /\ taskCall'.outcome = "ok"
                                      /\ taskStatus'[t] = FAILED
              /\ Cancel(t) => /\ taskCall'.outcome = "ok"
                              /\ taskStatus'[t] = CANCELLED]_vars

\* fail() was accepted on a pending task, which is now failed.
C16_Witness ==
    /\ taskCall.op = "fail"
    /\ taskCall.before = PENDING
    /\ taskCall.outcome = "ok"
    /\ taskStatus[taskCall.task] = FAILED

\* C17: an assignment task.status = s on a task whose status is completed,
\* failed or cancelled, with s another status, is rejected with ValueError by
\* the status validator, and the status stays.
C17_AssignmentFromTerminalRejected ==
    [][\A t \in TaskIds : \A s \in TaskStatus :
          (taskStatus[t] \in TerminalStatus /\ s # taskStatus[t] /\ AssignStatus(t, s)) =>
              /\ taskCall'.outcome = "ValueError"
              /\ taskStatus'[t] = taskStatus[t]]_vars

\* The verify_request_auth call at hand was made at an agent with a provider.
VerifyAtProvider == request.agent # None /\ authProvider[request.agent]

\* The call at hand asked the provider to authenticate and got a context.
Authenticated ==
    /\ request.calls # <<>>
    /\ request.calls[1].op = "authenticate"
    /\ ~request.calls[1].result.raised

\* C18: with a provider and a skill other than "default", a verify that has a
\* live context calls authorize(context, skill) once, after authenticate; it
\* succeeds and returns the context exactly when authorize answers True, and
\* on False or an exception it fails with the authorization error and returns
\* no context.
C18_AuthorizeDecides ==
    (VerifyAtProvider /\ request.skill # "default" /\ Authenticated
        /\ ~request.calls[1].result.context.expired) =>
        /\ Len(request.calls) = 2
        /\ request.calls[2].op = "authorize"
        /\ request.calls[2].arg = <<request.skill>>
        /\ IF request.calls[2].result = "True"
           THEN /\ request.outcome = "ok"
                /\ request.returned = Given(request.calls[1].result.context)
           ELSE /\ request.outcome = "Authorization failed"
                /\ request.returned = Absent

\* authorize raised for the skill "analyze", and verify failed.
C18_Witness ==
    /\ VerifyAtProvider
    /\ request.skill = "analyze"
    /\ Len(request.calls) = 2
    /\ request.calls[2].result = "raised"
    /\ request.outcome = "Authorization failed"

\* C19: when authenticate returns a context that is expired, verify fails
\* with the expiry error, returns no context, and has not called authorize.
C19_ExpiredBeforeAuthorize ==
    (VerifyAtProvider /\ Authenticated /\ request.calls[1].result.context.expired) =>
        /\ request.outcome = "Token expired"
        /\ request.returned = Absent
        /\ \A i \in 1..Len(request.calls) : request.calls[i].op # "authorize"

\* An expired context came back for a request for the skill "analyze".
C19_Witness ==
    /\ VerifyAtProvider
    /\ Authenticated
    /\ request.calls[1].result.context.expired
    /\ request.skill = "analyze"
    /\ request.outcome = "Token expired"

\* C20: with a provider, authenticate is only ever called for a header of the
\* shape "Bearer <token>" with a token that is not empty: an absent header
\* fails with the missing-credentials error and any other header with the
\* malformed-credentials error, both before the provider is called.
C20_OnlyBearerTokenAuthenticated ==
    VerifyAtProvider =>
        IF ~request.header.given
        THEN /\ request.calls = <<>>
             /\ request.outcome = "Authentication required but no credentials provided"
        ELSE IF ~(StartsWithBearer(request.header.value)
                    /\ TokenOf(request.header.value) # <<>>)
        THEN /\ request.calls = <<>>
             /\ request.outcome \in
                   {"Authentication required but no credentials provided",
                    "Invalid authorization header format"}
        ELSE TRUE

\* C21: the context an agent holds as current (get_auth_context) is that of
\* its most recent verify_request_auth call: the returned context after a
\* call that succeeded, and none after a call that failed.
C21_CurrentContextIsOfLastCall ==
    VerifyAtProvider =>
        authContext[request.agent] =
            (IF request.outcome = "ok" THEN request.returned ELSE Absent)

\* The messages of a returned task, as a set.
MessagesOf(result) == {result[i] : i \in DOMAIN result}

\* C22: a send_message call whose handler returned a task without messages
\* fails with the no-response error (RuntimeError), and a message that
\* send_message returns is one of the messages of the task the handler
\* returned.
C22_NoResponseWithoutMessages ==
    sendMessageCall.result.given =>
        /\ sendMessageCall.result.value = <<>> =>
              sendMessageCall.outcome = "RuntimeError"
        /\ sendMessageCall.outcome = "returned" =>
              sendMessageCall.returned \in MessagesOf(sendMessageCall.result.value)

\* C23: a send_task call of the in-process transport with a key that is not in
\* the transport's table raises ValueError (the endpoint was not found) and
\* invokes no agent's handler.
C23_UnknownEndpointNotFound ==
    [][\A key \in AgentKeys :
          SendTask(key) /\ key \notin DOMAIN rtAgents =>
              /\ sendTaskCall'.outcome = "ValueError"
              /\ sendTaskCall'.agent = None]_vars

\* send_task failed for a key that is missing from a table that holds others.
C23_Witness ==
    /\ sendTaskCall.outcome = "ValueError"
    /\ sendTaskCall.key \notin DOMAIN rtAgents
    /\ DOMAIN rtAgents # {}

\* The call ended because its timeout passed.
TimedOut == callOutcome \in {"ProtocolError: timed out", "TimeoutException"}

C27_StopReleasesEverything ==
    [][HttpStop =>
          /\ httpCall'.outcome = "ok"
          /\ httpListeners' = 0
          /\ httpClients' = 0]_vars

\* C28: a start call on a transport that is already started changes nothing:
\* no further route, no further server task, no further client, and no error.
C28_SecondStartHasNoEffect ==
    [][HttpStart /\ httpServerTask =>
          /\ httpCall'.outcome = "ok"
          /\ UNCHANGED <<httpRoutes, httpListeners, httpClients>>]_vars

\* C29: a heartbeat call for an id that is not registered raises ValueError
\* (the agent is not registered) and leaves the registry as it was: no entry
\* is made for the id. A heartbeat message on a websocket makes no entry
\* either.
C29_HeartbeatOfUnknownFails ==
    [][/\ \A id \in AgentIds :
             Heartbeat(id) /\ id \notin DOMAIN agents =>
                 /\ regCall'.outcome = "ValueError"
                 /\ agents' = agents
       /\ \A c \in Conns : WsHeartbeat(c) => DOMAIN agents' = DOMAIN agents]_vars

\* A heartbeat failed for an id that is missing from a registry that holds
\* another agent.
C29_Witness ==
    /\ regCall.method = "heartbeat"
    /\ regCall.outcome = "ValueError"
    /\ regCall.agent \notin DOMAIN agents
    /\ DOMAIN agents # {}

\* The ids that a discovery returns, as a set.
Found(capabilities, name) ==
    LET found == FindAgents(capabilities, name)
    IN {found[i] : i \in DOMAIN found}

\* The entry has every capability asked for, as one it processes or provides.
HasCapabilities(id, capabilities) ==
    capabilities.given =>
        capabilities.value \subseteq
            (agents[id].info.can_process \cup agents[id].info.can_provide)

PendingRemoval(id) ==
    /\ sweepPc = "closing"
    /\ \E i \in sweepIdx..Len(sweepStale) : sweepStale[i] = id

\* C31: a run of the sweep deletes every entry that is stale when the run
\* scans the map: at each of its steps such an entry has been deleted or is
\* still on the run's list, from which the run deletes it later; so an entry
\* that has become stale is eventually deleted, unless it is refreshed.
C31_SweepRemovesStale ==
    /\ [][SweepStart =>
             \A id \in DOMAIN agents :
                 IsStale(agents[id], now) =>
                     id \notin DOMAIN agents' \/ PendingRemoval(id)']_vars
    /\ [][SweepResume =>
             \A i \in sweepIdx..Len(sweepStale) :
                 \/ sweepStale[i] \notin DOMAIN agents'
                 \/ (i > sweepIdx /\ PendingRemoval(sweepStale[i])')]_vars
    /\ \A id \in AgentIds :
          (id \in DOMAIN agents /\ IsStale(agents[id], now))
              ~> (id \notin DOMAIN agents \/ ~IsStale(agents[id], now))

\* A run of the sweep has deleted one stale entry and waits to delete a second,
\* whose connection it is closing.
C31_Witness ==
    /\ sweepPc = "closing"
    /\ sweepIdx = 2
    /\ sweepStale[1] \notin DOMAIN agents
    /\ sweepStale[2] \in DOMAIN agents

\* C32: every read and every write of a stored context made through the
\* ContextManager, listing included, sets its last_accessed to the time of
\* the call.
C32_AccessRefreshes ==
    [][\A id \in ContextIds :
          (/\ id \in DOMAIN contexts
           /\ \/ GetContext(id)
              \/ AddMessageToContext(id)
              \/ GetContextMessageCount(id)
              \/ ListContexts)
              => (/\ id \in DOMAIN contexts'
                  /\ contexts'[id].last_accessed = ctxClock)]_vars

\* C33: get_context, add_message_to_context, delete_context and
\* get_context_message_count on an id that is not stored return None, False,
\* False and 0, raise nothing, and leave the map as it was.
C33_UnknownIdNotFound ==
    [][\A id \in ContextIds :
          id \notin DOMAIN contexts =>
              /\ GetContext(id) => ctxCall'.result = "None"
              /\ AddMessageToContext(id) => ctxCall'.result = "False"
              /\ DeleteContext(id) => ctxCall'.result = "False"
              /\ GetContextMessageCount(id) =>
                     (ctxCall'.result = "int" /\ ctxCall'.count = 0)
              /\ (\/ GetContext(id)
                  \/ AddMessageToContext(id)
                  \/ DeleteContext(id)
                  \/ GetContextMessageCount(id)) => contexts' = contexts]_vars

\* A message was offered to an id that is not stored, while another context is.
C33_Witness ==
    /\ ctxCall.op = "add_message_to_context"
    /\ ctxCall.result = "False"
    /\ ctxCall.id \notin DOMAIN contexts
    /\ DOMAIN contexts # {}

\* The smaller of two numbers.
Min(a, b) == IF a <= b THEN a ELSE b

\* C34: the sleep before retry k+1 (the k-th sleep of the send, k from 0) is
\* min(reconnect_delay * 2^k, cap); no sleep exceeds the cap and no sleep is
\* shorter than the one before it.
C34_BackoffDoublesUpToCap ==
    \A i \in 1..Len(sleeps) :
        /\ sleeps[i] = Min(reconnectDelay * (2 ^ (i - 1)), BackoffCap)
        /\ sleeps[i] <= BackoffCap
        /\ i > 1 => sleeps[i - 1] <= sleeps[i]

\* A send has slept twice, the second time for the cap, which is less than
\* twice the first sleep.
C34_Witness ==
    /\ Len(sleeps) = 2
    /\ sleeps[2] = BackoffCap
    /\ 2 * sleeps[1] > BackoffCap

\* The subscriber has drained the default wrapper around a handle_task that
\* returned its task.
DefaultWrapperDrained ==
    /\ strGen.kind = "default"
    /\ ~strGen.handler.raises
    /\ strState = "ended"

C37_UnregisterRemovesBothKeys ==
    [][\A a \in AgentObjs : \A key \in {CardUrl(a), CardName(a)} :
          RtUnregisterAgent(key) =>
              /\ CardUrl(a) \notin DOMAIN rtAgents'
              /\ CardName(a) \notin DOMAIN rtAgents']_vars

\* C40: once a send_message that waited for a reply has returned the reply or
\* raised, for the timeout or for its cancellation, _pending_requests has no
\* entry for its message.
C40_NoPendingAfterSendMessage ==
    (/\ callKind = "protocol"
     /\ callPc = "idle"
     /\ callOutcome \in {"response", "ProtocolError: timed out", "CancelledError"})
        => ~protoPending

\* A send_message that waited for its reply has raised for the timeout.
C40_Witness ==
    /\ callKind = "protocol"
    /\ callPc = "idle"
    /\ callOutcome = "ProtocolError: timed out"
    /\ callElapsed = requestTimeout
    /\ ~protoPending

\* The executions that returned, among the first n of the log.
RECURSIVE Returned(_)
Returned(n) ==
    IF n = 0 THEN 0
    ELSE Returned(n - 1) + (IF implLog[n][2] = "returned" THEN 1 ELSE 0)

\* The implementation that may run after n returned executions: _connect_impl
\* after none or after a _disconnect_impl, _disconnect_impl after a
\* _connect_impl.
Due(n) == IF n % 2 = 0 THEN "connect" ELSE "disconnect"

\* C39: whatever the interleaving of connect() and disconnect() calls, at most
\* one of _connect_impl and _disconnect_impl runs at a time, and the
\* executions alternate, beginning with _connect_impl: each one, ended or
\* running, is the one due after the executions that returned before it, so
\* the transport is never connected twice without a disconnect in between nor
\* disconnected twice without a connect in between.
C39_ImplsAlternate ==
    /\ \A i \in 1..Len(implLog) : implLog[i][1] = Due(Returned(i - 1))
    /\ \A t \in Callers :
          connPc[t] = "impl" =>
              /\ connOp[t] = Due(Returned(Len(implLog)))
              /\ lockHolder = t
              /\ \A u \in Callers \ {t} : connPc[u] # "impl"
    /\ tConnected = (Due(Returned(Len(implLog))) = "disconnect")

\* Two connect() calls overlapped: the second waited for the lock while the
\* first ran _connect_impl, and returned without running it again.
C39_Witness ==
    /\ implLog = <<<<"connect", "returned">>>>
    /\ \A t \in Callers : connPc[t] = "idle" /\ connOp[t] = "connect"

\* C36: connecting retries a failed attempt: when the first call of
\* websockets.connect fails and the second would succeed, the transport ends
\* with an open socket after exactly two calls.
C36_SecondAttemptConnects ==
    [][ConnectToServer(<<"fail", "ok">>) =>
          (/\ IsConnected(wstSocket')
           /\ wstCall'.attempts = 2
           /\ wstCall'.outcome = "returned")]_vars

\* C38: with auto_reconnect, when the reconnection that follows the loss of the
\* connection is over, the transport has an open socket or is marked not
\* connected: it is not left marked connected without an open socket.
C38_ReconnectReopensOrGivesUp ==
    [][(/\ wstAutoReconnect
        /\ ReconnectWake \/ \E outcome \in ImplOutcomes : ReconnectClosed(outcome)
        /\ wstPc' = "idle")
          => (IsConnected(wstSocket') \/ ~wstConnected')]_vars

====
